---------------------------- MODULE Spec2Model ----------------------------
(***************************************************************************)
(* A model of tightdb/util/thread.hpp: Mutex, RobustMutex and CondVar      *)
(* (native and semaphore-emulated).  Each component has its own            *)
(* specification; the variables of the other components stay at their      *)
(* initial values.                                                         *)
(***************************************************************************)
EXTENDS Integers, FiniteSets, Sequences, TLC

(* ------------------------------ bounds -------------------------------- *)

\* number of threads contending for the Mutex / RobustMutex
NThreads == 3
\* number of threads that call CondVar::wait
NWaiters == 3
\* number of threads that call CondVar::notify / notify_all
NNotifiers == 1
\* wait() calls a waiter performs
MaxWaits == 1
\* notify() and notify_all() calls performed in total
MaxSignals == 2
\* lock(); counter += 1; unlock() rounds a thread performs on the Mutex
MaxRounds == 2

\* threads that use a LockGuard, UniqueLock or RobustLockGuard
NGuardThreads == 2
\* guarded scopes a thread enters
MaxScopes == 2
\* explicit UniqueLock::lock() / unlock() calls inside one scope
MaxOps == 2

\* threads that call CondVar::wait(RobustMutex&, Func, tp)
NRWaiters == 2

\* CondVar handles, each in a process of its own
NHandles == 2

\* threads that operate on one Atomic<T>
NAThreads == 2
\* operations each thread performs on the Atomic<T>
MaxAtomicOps == 2
\* largest argument passed to fetch_add, fetch_sub and compare_and_swap
MaxArg == 1
\* width of T in bits
TBits == 4

\* bits kept of the uint32_t SharedPart::waiters
WBits == 3

\* close() calls made on a handle before its destructor runs
MaxCloses == 2

\* Thread objects
NThreadObjs == 2
\* start(func) calls made on a Thread object
MaxStarts == 2

AThreads == 1..NAThreads
\* the values of T, and the arguments the threads pass
TModulus == 2 ^ TBits

\* uint32_t arithmetic of SharedPart::waiters wraps around
WModulus == 2 ^ WBits
TValues == 0..(TModulus - 1)
AArgs == 0..MaxArg
\* the implementations of Atomic<T> that define the read-modify-write
\* operations: C++11 std::atomic, gcc >= 4.7 / clang builtins, legacy gcc
AVariants == {"cxx11", "gcc47", "legacy"}




Threads == 1..NThreads
\* the threads whose use of the guards is followed (NGuardThreads <= NThreads)
GThreads == 1..NGuardThreads

Waiters == 1..NWaiters
Notifiers == (NWaiters + 1)..(NWaiters + NNotifiers)
CVThreads == Waiters \cup Notifiers
\* the notifier of the parts that have a single notifying thread
FirstNotifier == NWaiters + 1
\* the waiters that wait with a RobustMutex (NRWaiters <= NWaiters)
RWaiters == 1..NRWaiters

Handles == 1..NHandles
\* the waiting thread of each handle's process (NHandles <= NWaiters)
HWaiters == 1..NHandles
\* the threads that use the handles: the waiters and the notifiers
HThreads == HWaiters \cup {FirstNotifier}

\* the two SharedParts, each in a database of its own
Parts == {1, 2}

\* the SharedPart a waiter waits on: waiter 1 on the first, the others on the
\* second
PartOf(t) == IF t = 1 THEN 1 ELSE 2

\* the waiters and the notifier of the two SharedParts
SThreads == Waiters \cup {FirstNotifier}

ThreadObjs == 1..NThreadObjs

\* the null thread id: nobody owns the pthread mutex
NoThread == 0

VARIABLES
    \* ---- Mutex (thread.hpp:97-135)
    m_impl,        \* Mutex::m_impl: owner of the pthread mutex, NoThread if unlocked
    mpc,           \* per thread: position in lock(); counter += 1; unlock()
    mtmp,          \* per thread: the value of counter read inside the critical section
    counter,       \* the shared counter the mutex protects
    mrounds,       \* per thread: completed rounds
    m_terminated,  \* the process was terminated by Mutex::lock_failed
    process_shared \* the mutex was constructed with process_shared_tag

mvars == <<m_impl, mpc, mtmp, counter, mrounds, m_terminated, process_shared>>

VARIABLES
    \* ---- RobustMutex (thread.hpp:180-247)
    robust,        \* is_robust_on_this_platform()
    rm_owner,      \* owner of the robust pthread mutex, NoThread if unlocked
    rm_state,      \* "consistent", "inconsistent" (a holder died) or "notrecoverable"
    rpc,           \* per thread: position in RobustMutex::lock / unlock
    lllRes,        \* per thread: outcome of low_level_lock() in the current lock() call
    rexc,          \* per thread: the exception in flight, "none" if none
    recoverThrew,  \* per thread: what recover_func threw in the current lock() call
    nrecover,      \* per thread: calls of recover_func in the current lock() call
    nmark,         \* per thread: calls of mark_as_consistent() in the current lock() call
    nDeaths,       \* threads that died while holding the lock
    nFalse         \* low_level_lock() calls that returned false

rvars == <<robust, rm_owner, rm_state, rpc, lllRes, rexc, recoverThrew,
           nrecover, nmark, nDeaths, nFalse>>

VARIABLES
    \* ---- CondVar (thread.hpp:286-352) and the Mutex it is used with
    emulation,      \* m_sem != 0: the handle emulates a process-shared condvar
    cv_mutex,       \* owner of the mutex of the monitor, NoThread if unlocked
    signal_counter, \* SharedPart::signal_counter
    waiters,        \* SharedPart::waiters
    sem,            \* value of the named semaphore *m_sem
    cond_waitset,   \* threads blocked on the native pthread_cond_t
    cpc,            \* per thread: position in wait() / notify() / notify_all()
    my_counter,     \* per waiter: the local my_counter of wait()
    cwaits,         \* per waiter: completed wait() calls
    nCalls,         \* notify() and notify_all() calls so far
    nPosted,        \* sem_post calls made by notify() / notify_all()
    nReturned,      \* wait() calls that have returned (emulation)
    owedAll,        \* waiters registered at a notify_all() and still in wait()
    watched,        \* the waiters registered at one observed notify(), {} if none
    notifiedSince   \* per waiter: a notify()/notify_all() came after it registered

cvars == <<emulation, cv_mutex, signal_counter, waiters, sem, cond_waitset, cpc,
           my_counter, cwaits, nCalls, nPosted, nReturned, owedAll, watched,
           notifiedSince>>

VARIABLES
    \* ---- LockGuard, UniqueLock, RobustLockGuard (thread.hpp:138-168, 258-270)
    g_any,          \* UniqueLock::lock()/unlock() are called in any order
    gkind,          \* per thread: the guard of its current scope
    gpc,            \* per thread: "outside", inside the "body", leaving it on an "error", "dead"
    m_is_locked,    \* per thread: UniqueLock::m_is_locked
    g_nlock,        \* per thread: lock calls that succeeded through the guard of the scope
    g_nunlock,      \* per thread: unlock calls made through the guard of the scope
    gscopes,        \* per thread: scopes entered so far
    gops,           \* per thread: explicit lock()/unlock() calls in the scope
    gexit,          \* per thread: how the last scope ended
    g_misused       \* unlock() has been called on a UniqueLock that was not locked

gvars == <<g_any, gkind, gpc, m_is_locked, g_nlock, g_nunlock, gscopes, gops, gexit,
           g_misused>>

VARIABLES
    \* ---- CondVar::wait(RobustMutex&, Func, tp) (thread.hpp:326-329)
    assertions,     \* the build compiles TIGHTDB_ASSERT in
    w_tp,           \* per waiter: the current wait() was given a timeout (tp != 0)
    w_timedout,     \* per waiter: the time of the current timed wait has run out
    w_r,            \* per waiter: r, what the native wait returned, "none" before
    w_result,       \* per waiter: what the caller sees: "returned" or "threw"
    w_exc,          \* per waiter: the exception wait() threw
    w_recoverThrew, \* per waiter: what recover_func threw in the current wait()
    w_nrecover,     \* per waiter: calls of recover_func in the current wait()
    w_nmark,        \* per waiter: calls of mark_as_consistent() in the current wait()
    w_nunlock       \* per waiter: unlock() calls of the catch block in the current wait()

wvars == <<assertions, w_tp, w_timedout, w_r, w_result, w_exc, w_recoverThrew,
           w_nrecover, w_nmark, w_nunlock>>

VARIABLES
    \* ---- CondVar handles (thread.hpp:346-350)
    m_sem,          \* per handle: m_sem != 0, the handle has the named semaphore open
    m_cond,         \* per handle: m_cond != 0, the handle owns a native condition variable
    m_shared_part,  \* per handle: m_shared_part != 0, it is bound to the SharedPart
    l_waitset,      \* per handle: threads blocked on its own native condition variable
    h_of,           \* per thread: the handle of its current wait() / notify(), 0 if none
    h_afterClose    \* per waiter: its current wait() was entered after a close()

hvars == <<m_sem, m_cond, m_shared_part, l_waitset, h_of, h_afterClose>>

VARIABLES
    \* ---- Atomic<T> (thread.hpp:802-844)
    a_variant,      \* the implementation the build selected
    state,          \* Atomic<T>::state
    a_last,         \* the last operation: name, arguments, oldvalue afterwards, result
    a_nops,         \* per thread: operations performed
    a_net,          \* sum of all added values minus all subtracted values, modulo 2^TBits
    a_other,        \* an operation other than a fetch_add with v = 1 was performed
    a_replaced      \* a compare_and_swap has replaced the value

avars == <<a_variant, state, a_last, a_nops, a_net, a_other, a_replaced>>

VARIABLES
    \* ---- Mutex::unlock called by any thread (thread.hpp:445-450)
    unlock_r        \* per thread: r of its last pthread_mutex_unlock, "none" before

uvars == <<unlock_r>>

VARIABLES
    \* ---- Atomic<T>::load_relaxed and Atomic<T>::store of the legacy gcc
    \* ---- implementation (thread.hpp:1057-1078, 1118-1134)
    l_wide,         \* sizeof(T) >= sizeof(ptrdiff_t)
    lpc,            \* per thread: position in load_relaxed() / store()
    retval,         \* per thread: the local retval of load_relaxed()
    val,            \* per thread: the local val of load_relaxed()
    old_value,      \* per thread: the local old_value of store()
    l_value         \* per thread: the argument of the current store()

lvars == <<l_wide, lpc, retval, val, old_value, l_value>>

VARIABLES
    \* ---- the SharedPart read and written by a thread without the mutex
    \* ---- (thread.hpp:302-306, 616, 715-722, 741-748)
    sp_load,        \* per thread: the value it has loaded from a SharedPart field
    notifying_all,  \* per notifier: its current call is notify_all()
    nRegistered,    \* number of completed waiters++ of wait()
    nGranted        \* number of completed --waiters of notify() / notify_all()

pvars == <<sp_load, notifying_all, nRegistered, nGranted>>

VARIABLES
    \* ---- two SharedParts behind the one named semaphore
    \* ---- (thread.hpp:586-609, 611-631, 711-757)
    s_mutex,            \* per SharedPart: owner of the mutex of its monitor
    s_signal_counter,   \* per SharedPart: SharedPart::signal_counter
    s_waiters,          \* per SharedPart: SharedPart::waiters
    s_sem,              \* value of the semaphore named m_name
    spc,                \* per thread: position in its wait or notify
    s_my_counter,       \* per waiter: my_counter of its wait()
    s_part,             \* the SharedPart of the notifier's current call
    s_nCalls,           \* number of notify()/notify_all() calls so far
    s_notified,         \* per waiter: its SharedPart was notified since it registered
    s_meant             \* a permit was posted for waiter 1 and it has not returned

svars == <<s_mutex, s_signal_counter, s_waiters, s_sem, spc, s_my_counter, s_part,
           s_nCalls, s_notified, s_meant>>

VARIABLES
    \* ---- a caller's retry loop around Atomic<T>::compare_and_swap
    \* ---- (thread.hpp:914-918, 1034-1038, 1153-1159)
    kpc,            \* per thread: "idle", "loop" (compare_and_swap returned
                    \* false so far) or "done" (it returned true)
    k_oldvalue,     \* per thread: the caller's variable passed as T& oldvalue
    k_newvalue,     \* per thread: the argument newvalue
    k_retried       \* per thread: a compare_and_swap of its loop returned false

kvars == <<kpc, k_oldvalue, k_newvalue, k_retried>>

VARIABLES
    \* ---- close() and the destructor of a CondVar handle
    \* ---- (thread.hpp:550-582)
    d_alive,        \* per handle: the destructor has not run yet
    d_ncloses,      \* per handle: number of close() calls made on it
    nDestroyed,     \* per handle: number of pthread_cond_destroy + delete
    nSemClosed      \* per handle: number of sem_close calls

dvars == <<d_alive, d_ncloses, nDestroyed, nSemClosed>>

VARIABLES
    \* ---- Thread objects (thread.hpp:62-94, 359-410)
    t_object,       \* per object: "none" (not constructed), "alive", "destroyed"
    m_joinable,     \* per object: Thread::m_joinable
    t_owned,        \* per object: threads it has created that are not joined
    t_run,          \* per object: "none", or its latest thread is "running"
                    \* or has "finished"
    t_nstarts,      \* per object: start(func) calls made on it
    t_threw,        \* per object: its last constructor or start() threw
    t_terminated    \* "no", or the call in which std::terminate() was reached:
                    \* "start" or "destructor"

tvars == <<t_object, m_joinable, t_owned, t_run, t_nstarts, t_threw, t_terminated>>

vars == <<mvars, rvars, cvars, gvars, wvars, hvars, avars, uvars, lvars, pvars, svars, kvars, dvars, tvars>>

(* ------------------- initial values of each component ----------------- *)

\* RobustMutex::RobustMutex: init_as_process_shared(robust_if_available = true)
RobustStart ==
    /\ robust \in BOOLEAN
    /\ rm_owner = NoThread
    /\ rm_state = "consistent"
    /\ rpc = [t \in Threads |-> "idle"]
    /\ lllRes = [t \in Threads |-> "none"]
    /\ rexc = [t \in Threads |-> "none"]
    /\ recoverThrew = [t \in Threads |-> "none"]
    /\ nrecover = [t \in Threads |-> 0]
    /\ nmark = [t \in Threads |-> 0]
    /\ nDeaths = 0
    /\ nFalse = 0

\* the robust mutex while only another component is exercised
RobustIdle == RobustStart /\ robust

\* CondVar::CondVar / init_shared_part / set_shared_part: nobody waits, the
\* semaphore is opened with value 0; m_sem is set or not by the build
CondStart ==
    /\ emulation \in BOOLEAN
    /\ cv_mutex = NoThread
    /\ signal_counter = 0
    /\ waiters = 0
    /\ sem = 0
    /\ cond_waitset = {}
    /\ cpc = [t \in CVThreads |-> "idle"]
    /\ my_counter = [t \in Waiters |-> 0]
    /\ cwaits = [t \in Waiters |-> 0]
    /\ nCalls = 0
    /\ nPosted = 0
    /\ nReturned = 0
    /\ owedAll = {}
    /\ watched = {}
    /\ notifiedSince = [t \in Waiters |-> FALSE]

\* the condition variable while only another component is exercised
CondIdle == CondStart /\ emulation

\* no guard exists yet
GuardStart ==
    /\ g_any \in BOOLEAN
    /\ gkind = [t \in GThreads |-> "none"]
    /\ gpc = [t \in GThreads |-> "outside"]
    /\ m_is_locked = [t \in GThreads |-> FALSE]
    /\ g_nlock = [t \in GThreads |-> 0]
    /\ g_nunlock = [t \in GThreads |-> 0]
    /\ gscopes = [t \in GThreads |-> 0]
    /\ gops = [t \in GThreads |-> 0]
    /\ gexit = [t \in GThreads |-> "none"]
    /\ g_misused = FALSE

\* the guards while only another component is exercised
GuardIdle == GuardStart /\ ~g_any

\* nobody has called wait(RobustMutex&, ...) yet; the build has the
\* assertions compiled in or not
RWaitStart ==
    /\ assertions \in BOOLEAN
    /\ w_tp = [t \in RWaiters |-> FALSE]
    /\ w_timedout = [t \in RWaiters |-> FALSE]
    /\ w_r = [t \in RWaiters |-> "none"]
    /\ w_result = [t \in RWaiters |-> "none"]
    /\ w_exc = [t \in RWaiters |-> "none"]
    /\ w_recoverThrew = [t \in RWaiters |-> "none"]
    /\ w_nrecover = [t \in RWaiters |-> 0]
    /\ w_nmark = [t \in RWaiters |-> 0]
    /\ w_nunlock = [t \in RWaiters |-> 0]

\* the robust wait while only another component is exercised
RWaitIdle == RWaitStart /\ assertions

\* the handles as constructed: CondVar() owns a native condition variable;
\* CondVar(process_shared_tag) followed by set_shared_part() is bound to the
\* SharedPart, and under emulation has the semaphore open
HandleStart ==
    /\ m_cond \in [Handles -> BOOLEAN]
    /\ m_shared_part = [h \in Handles |-> ~m_cond[h]]
    /\ m_sem = [h \in Handles |-> emulation /\ ~m_cond[h]]
    /\ l_waitset = [h \in Handles |-> {}]
    /\ h_of = [t \in HThreads |-> 0]
    /\ h_afterClose = [t \in HWaiters |-> FALSE]

\* the handles while only another component is exercised
HandleIdle == HandleStart /\ \A h \in Handles : m_cond[h]

\* Atomic<T>::Atomic(): state = 0; no operation performed yet
AtomicStart ==
    /\ a_variant \in AVariants
    /\ state = 0
    /\ a_last = [op |-> "none", expected |-> 0, arg |-> 0, oldvalue |-> 0, ret |-> FALSE]
    /\ a_nops = [t \in AThreads |-> 0]
    /\ a_net = 0
    /\ a_other = FALSE
    /\ a_replaced = FALSE

\* the Atomic<T> while only another component is exercised
AtomicIdle == AtomicStart /\ a_variant = "cxx11"

\* no thread has called unlock() yet
UnlockStart == unlock_r = [t \in Threads |-> "none"]

\* Mutex::unlock while only another component is exercised
UnlockIdle == UnlockStart

\* no load_relaxed() or store() call is in progress; T is wide or not
LoopsStart ==
    /\ l_wide \in BOOLEAN
    /\ lpc = [t \in AThreads |-> "idle"]
    /\ retval = [t \in AThreads |-> 0]
    /\ val = [t \in AThreads |-> 0]
    /\ old_value = [t \in AThreads |-> 0]
    /\ l_value = [t \in AThreads |-> 0]

\* the legacy load and store while only another component is exercised
LoopsIdle == LoopsStart /\ ~l_wide

\* no thread is inside an update of the SharedPart
RaceStart ==
    /\ sp_load = [t \in CVThreads |-> 0]
    /\ notifying_all = [n \in Notifiers |-> FALSE]
    /\ nRegistered = 0
    /\ nGranted = 0

\* the same while only another component is exercised
RaceIdle == RaceStart

\* both SharedParts initialised, the semaphore created with value 0
SemStart ==
    /\ s_mutex = [p \in Parts |-> NoThread]
    /\ s_signal_counter = [p \in Parts |-> 0]
    /\ s_waiters = [p \in Parts |-> 0]
    /\ s_sem = 0
    /\ spc = [t \in SThreads |-> "idle"]
    /\ s_my_counter = [t \in Waiters |-> 0]
    /\ s_part = 1
    /\ s_nCalls = 0
    /\ s_notified = [t \in Waiters |-> FALSE]
    /\ s_meant = FALSE

\* the same while only another component is exercised
SemIdle == SemStart

\* no thread has started a retry loop
CasLoopStart ==
    /\ kpc = [t \in AThreads |-> "idle"]
    /\ k_oldvalue = [t \in AThreads |-> 0]
    /\ k_newvalue = [t \in AThreads |-> 0]
    /\ k_retried = [t \in AThreads |-> FALSE]

\* the same while only another component is exercised
CasLoopIdle == CasLoopStart

\* the handles exist, close() has not been called on any
CloseStart ==
    /\ d_alive = [h \in Handles |-> TRUE]
    /\ d_ncloses = [h \in Handles |-> 0]
    /\ nDestroyed = [h \in Handles |-> 0]
    /\ nSemClosed = [h \in Handles |-> 0]

\* the same while only another component is exercised
CloseIdle == CloseStart

\* no Thread object has been constructed
ThreadStart ==
    /\ t_object = [o \in ThreadObjs |-> "none"]
    /\ m_joinable = [o \in ThreadObjs |-> FALSE]
    /\ t_owned = [o \in ThreadObjs |-> 0]
    /\ t_run = [o \in ThreadObjs |-> "none"]
    /\ t_nstarts = [o \in ThreadObjs |-> 0]
    /\ t_threw = [o \in ThreadObjs |-> FALSE]
    /\ t_terminated = "no"

\* the same while only another component is exercised
ThreadIdle == ThreadStart

(* ------------------------------ Mutex --------------------------------- *)

\* Mutex::Mutex() or Mutex::Mutex(process_shared_tag): unlocked either way
MutexStart ==
    /\ process_shared \in BOOLEAN
    /\ m_impl = NoThread
    /\ mpc = [t \in Threads |-> "idle"]
    /\ mtmp = [t \in Threads |-> 0]
    /\ counter = 0
    /\ mrounds = [t \in Threads |-> 0]
    /\ m_terminated = FALSE

\* the mutex while only another component is exercised
MutexIdle == MutexStart /\ ~process_shared

\* variables that no Mutex action touches
MutexFrame == UNCHANGED <<rvars, cvars, gvars, wvars, hvars, avars, uvars, lvars, pvars, svars, kvars, dvars, tvars>>

\* pthread_mutex_lock, a variant that never blocks
pthread_mutex_lock_never_blocks(owner) == {0, 1}

\* pthread_mutex_lock(&m_impl): the outcomes r the call can have for thread t.
\* 0 is possible only while the mutex is unlocked (the call blocks otherwise);
\* a nonzero r is an OS-level failure, which leaves the mutex as it was.
pthread_mutex_lock_results(owner) ==
    (IF owner = NoThread THEN {0} ELSE {}) \cup {1}

\* Mutex::lock, a variant that returns to the caller whatever r is
Mutex_lock_ignores_r(t, r) ==
    /\ m_impl' = IF r = 0 THEN t ELSE m_impl
    /\ mpc' = [mpc EXCEPT ![t] = "locked"]
    /\ UNCHANGED m_terminated

\* Mutex::lock: r = pthread_mutex_lock(); if (r == 0) return; lock_failed(r)
\* (lock_failed is declared TIGHTDB_NORETURN: the process is terminated)
Mutex_lock(t, r) ==
    /\ m_impl' = IF r = 0 THEN t ELSE m_impl
    /\ IF r = 0
         THEN /\ mpc' = [mpc EXCEPT ![t] = "locked"]
              /\ UNCHANGED m_terminated
         ELSE /\ m_terminated' = TRUE
              /\ UNCHANGED mpc

\* Mutex::unlock: pthread_mutex_unlock(&m_impl).  Called by the owner it
\* releases the mutex.  Called by a thread that does not own the mutex (the
\* mutex has the default type, for which this is undefined) it either fails
\* and leaves the mutex alone, or releases it whoever owns it.
Mutex_unlock(t) ==
    m_impl' \in (IF m_impl = t THEN {NoThread} ELSE {m_impl, NoThread})

\* a thread calls lock()
MLock(t) ==
    /\ ~m_terminated
    /\ mpc[t] = "idle"
    /\ mrounds[t] < MaxRounds
    /\ \E r \in pthread_mutex_lock_results(m_impl) : Mutex_lock(t, r)
    /\ UNCHANGED <<mtmp, counter, mrounds, process_shared>>
    /\ MutexFrame

\* inside the critical section: read the counter
MRead(t) ==
    /\ ~m_terminated
    /\ mpc[t] = "locked"
    /\ mtmp' = [mtmp EXCEPT ![t] = counter]
    /\ mpc' = [mpc EXCEPT ![t] = "read"]
    /\ UNCHANGED <<m_impl, counter, mrounds, m_terminated, process_shared>>
    /\ MutexFrame

\* inside the critical section: write the counter back, incremented
MWrite(t) ==
    /\ ~m_terminated
    /\ mpc[t] = "read"
    /\ counter' = mtmp[t] + 1
    /\ mpc' = [mpc EXCEPT ![t] = "written"]
    /\ UNCHANGED <<m_impl, mtmp, mrounds, m_terminated, process_shared>>
    /\ MutexFrame

\* the thread calls unlock()
MUnlock(t) ==
    /\ ~m_terminated
    /\ mpc[t] = "written"
    /\ Mutex_unlock(t)
    /\ mpc' = [mpc EXCEPT ![t] = "idle"]
    /\ mrounds' = [mrounds EXCEPT ![t] = @ + 1]
    /\ UNCHANGED <<mtmp, counter, m_terminated, process_shared>>
    /\ MutexFrame

MutexNext ==
    \E t \in Threads : MLock(t) \/ MRead(t) \/ MWrite(t) \/ MUnlock(t)

MutexInit == MutexStart /\ RobustIdle /\ CondIdle /\ GuardIdle /\ RWaitIdle /\ HandleIdle /\ AtomicIdle /\ UnlockIdle /\ LoopsIdle /\ RaceIdle /\ SemIdle /\ CasLoopIdle /\ CloseIdle /\ ThreadIdle

SpecMutex == MutexInit /\ [][MutexNext]_vars

\* the threads that have returned from lock() and not yet called unlock()
Holders == {t \in Threads : mpc[t] \in {"locked", "read", "written"}}

\* C1: at every reachable state at most one thread is between the return of
\* lock() and its call of unlock(), and that thread is the owner of the
\* pthread mutex: lock() never returns to a thread while another holds it.
C1_MutualExclusion ==
    /\ Cardinality(Holders) <= 1
    /\ \A t \in Holders : m_impl = t

\* C1 witness: a thread holds the mutex while another thread, which has
\* already completed a round, is about to call lock() again.
C1_Witness ==
    \E t, u \in Threads :
        /\ t # u
        /\ mpc[t] = "read"
        /\ mpc[u] = "idle"
        /\ mrounds[u] = 1
        /\ ~m_terminated

\* the sum of f[t] over the threads of S
RECURSIVE SumOver(_, _)
SumOver(f, S) ==
    IF S = {} THEN 0
    ELSE LET t == CHOOSE x \in S : TRUE IN f[t] + SumOver(f, S \ {t})

\* C11: no update of the counter is lost: at every reachable state the counter
\* equals the number of lock(); counter += 1; unlock() rounds completed plus
\* the one increment written by the current holder, so that when each of the
\* N threads has completed all its rounds the counter is N times the rounds,
\* for a process-local and for a process-shared mutex alike.
C11_NoLostUpdates ==
    /\ counter = SumOver(mrounds, Threads)
                   + Cardinality({t \in Threads : mpc[t] = "written"})
    /\ (\A t \in Threads : mrounds[t] = MaxRounds) =>
           counter = NThreads * MaxRounds

\* C11 witness: all threads have completed all their rounds on a
\* process-shared mutex, and the counter shows every one of them.
C11_Witness ==
    /\ process_shared
    /\ ~m_terminated
    /\ \A t \in Threads : mrounds[t] = MaxRounds /\ mpc[t] = "idle"
    /\ counter = NThreads * MaxRounds

\* C21: a lock() call ends in one of two ways: it returns and the caller owns
\* the mutex, or the OS call failed and the process is terminated with the
\* caller not past lock() and the mutex as it was.  Once the process is
\* terminated no thread takes another step.
C21_LockReturnsOwnedOrTerminates ==
    /\ [][\A t \in Threads :
            (mpc[t] = "idle" /\ (mpc'[t] # "idle" \/ m_terminated' # m_terminated)) =>
                \/ mpc'[t] = "locked" /\ m_impl' = t /\ ~m_terminated'
                \/ m_terminated' /\ mpc'[t] = "idle" /\ m_impl' = m_impl]_vars
    /\ [][~m_terminated]_vars

\* C21 witness: a lock() call failed while another thread was inside its
\* critical section: the process is terminated.
C21_Witness ==
    \E t, u \in Threads :
        /\ t # u
        /\ m_terminated
        /\ m_impl = t /\ mpc[t] = "read"
        /\ mpc[u] = "idle" /\ mrounds[u] = 1

(* ------------------- Mutex::unlock called by any thread ---------------- *)
(* The threads call lock() and unlock() on the Mutex in any order, so that  *)
(* unlock() is also called by threads that do not hold it.  The build has   *)
(* TIGHTDB_ASSERT compiled in or not (assertions).                          *)

\* variables that no action of this part touches
UnlockFrame ==
    UNCHANGED <<mtmp, counter, mrounds, process_shared, rvars, cvars, gvars, wvars, hvars,
                avars, lvars, pvars, svars, kvars, dvars, tvars>>

\* pthread_mutex_unlock(&m_impl) called by thread t: the values r it can
\* return.  The owner gets 0.  A thread that does not own the mutex gets
\* EPERM from an error-checking or robust mutex; on a mutex of the default
\* type the call is undefined, and common builds release the mutex and
\* return 0.
pthread_mutex_unlock_results(t) ==
    IF m_impl = t THEN {"0"} ELSE {"0", "EPERM"}

\* Mutex::unlock, lines 447-449, with the r of pthread_mutex_unlock explicit:
\* r = pthread_mutex_unlock(&m_impl); TIGHTDB_ASSERT(r == 0);
\* static_cast<void>(r);  The assertion ends the process if it is compiled
\* in; otherwise unlock() returns whatever r is.
Mutex_unlock_r(t, r) ==
    /\ m_impl' = IF r = "0" THEN NoThread ELSE m_impl
    /\ unlock_r' = [unlock_r EXCEPT ![t] = r]
    /\ IF r # "0" /\ assertions
         THEN /\ m_terminated' = TRUE
              /\ UNCHANGED mpc
         ELSE /\ mpc' = [mpc EXCEPT ![t] = "idle"]
              /\ UNCHANGED m_terminated

\* a thread calls lock()
XLock(t) ==
    /\ ~m_terminated
    /\ mpc[t] = "idle"
    /\ \E r \in pthread_mutex_lock_results(m_impl) : Mutex_lock(t, r)
    /\ UNCHANGED unlock_r
    /\ UnlockFrame

\* a thread calls unlock(), whether it holds the mutex or not
XUnlock(t) ==
    /\ ~m_terminated
    /\ \E r \in pthread_mutex_unlock_results(t) : Mutex_unlock_r(t, r)
    /\ UnlockFrame

UnlockNext ==
    \/ \E t \in Threads : XLock(t)
    \/ \E t \in Threads : XUnlock(t)

UnlockInit ==
    MutexStart /\ RobustIdle /\ CondIdle /\ GuardIdle /\ RWaitStart /\ HandleIdle /\ AtomicIdle /\ UnlockStart /\ LoopsIdle /\ RaceIdle /\ SemIdle /\ CasLoopIdle /\ CloseIdle /\ ThreadIdle

SpecUnlock == UnlockInit /\ [][UnlockNext]_vars

\* C22: whenever the pthread_mutex_unlock of an unlock() call has reported an
\* error, the process has been terminated: no thread is past an unlock()
\* that failed.
C22_UnlockFailureTerminates ==
    \A t \in Threads : unlock_r[t] \notin {"none", "0"} => m_terminated

(* --------------------------- RobustMutex ------------------------------ *)

\* variables that no RobustMutex action touches
RobustFrame == UNCHANGED <<mvars, cvars, gvars, wvars, hvars, avars, uvars, lvars, pvars, svars, kvars, dvars, tvars>>

\* what recover_func can do: return normally, or throw NotRecoverable (as it
\* is advised to) or any other exception
RecoverOutcomes == {"ok", "NotRecoverable", "Other"}

\* RobustMutex::low_level_lock(): the outcomes the call can have now.
\* It throws NotRecoverable once the mutex is not recoverable, blocks while the
\* mutex is owned (by a live thread, or by a dead one where the platform has no
\* robust mutexes), and otherwise acquires the mutex and returns false if, and
\* only if, a thread has died while holding it.
low_level_lock_results ==
    IF robust /\ rm_state = "notrecoverable" THEN {"throw"}
    ELSE IF rm_owner # NoThread THEN {}
    ELSE IF robust /\ rm_state = "inconsistent" THEN {"false"}
    ELSE {"true"}

\* RobustMutex::mark_as_consistent(): pulls the mutex its caller owns out of
\* the inconsistent state
mark_as_consistent(t) ==
    rm_state' = IF rm_owner = t /\ rm_state = "inconsistent"
                  THEN "consistent" ELSE rm_state

\* RobustMutex::unlock -> Mutex::unlock -> pthread_mutex_unlock: releases the
\* mutex; a robust mutex released while still inconsistent becomes not
\* recoverable
RobustMutex_unlock(t) ==
    /\ rm_owner' = IF rm_owner = t THEN NoThread ELSE rm_owner
    /\ rm_state' = IF rm_owner = t /\ rm_state = "inconsistent"
                     THEN "notrecoverable" ELSE rm_state

\* RobustMutex::lock, a variant that runs the recovery on every path
RobustMutex_lock_branch_always_recovers(res) ==
    IF res = "throw" THEN "threw" ELSE "recover"

\* RobustMutex::lock, a variant whose try block also covers low_level_lock()
RobustMutex_lock_branch_swallows(res) ==
    IF res = "true" THEN "held" ELSE "recover"

\* RobustMutex::lock, lines 523-526: where the call goes after
\* low_level_lock(): out with the exception, back to the caller on the fast
\* path, or on to the recovery
RobustMutex_lock_branch(res) ==
    IF res = "throw" THEN "threw"
    ELSE IF res = "true" THEN "held"
    ELSE "recover"

\* RobustMutex::lock, a variant that forgets mark_as_consistent()
RobustMutex_lock_after_recover_no_mark(outcome) ==
    IF outcome = "ok" THEN "held" ELSE "catch"

\* RobustMutex::lock, lines 526-534: after recover_func(), on to
\* mark_as_consistent() or into the catch block
RobustMutex_lock_after_recover(outcome) ==
    IF outcome = "ok" THEN "mark" ELSE "catch"

\* RobustMutex::lock's catch block, a variant that rethrows without unlock()
RobustMutex_lock_catch_no_unlock(t) ==
    /\ rpc' = [rpc EXCEPT ![t] = "threw"]
    /\ UNCHANGED <<rm_owner, rm_state, rexc>>

\* RobustMutex::lock, lines 534-541: catch (...) { unlock(); throw; }
RobustMutex_lock_catch(t) ==
    /\ RobustMutex_unlock(t)
    /\ rpc' = [rpc EXCEPT ![t] = "threw"]
    /\ UNCHANGED rexc

\* RobustMutex::lock(recover_func) called by t, lines 521-542, as one step:
\* the ways it can end now.  held: the call returned, t owns the mutex;
\* exc: what it threw; recovered: recover_func was called.
RobustMutex_lock_outcomes(t) ==
    { [held |-> after \in {"held", "mark"},
       owner |-> IF after \in {"held", "mark"} THEN t ELSE NoThread,
       state |-> IF after \in {"held", "mark"} THEN "consistent"
                 ELSE IF after = "catch" THEN "notrecoverable" ELSE rm_state,
       exc |-> IF after = "catch" THEN outcome
               ELSE IF after = "threw" THEN "NotRecoverable" ELSE "none",
       recovered |-> res = "false"] :
        <<res, outcome, after>> \in
            { x \in low_level_lock_results \X RecoverOutcomes \X
                     {"held", "mark", "catch", "threw"} :
                /\ (x[1] # "false" => x[2] = "ok")
                /\ x[3] = (IF RobustMutex_lock_branch(x[1]) = "recover"
                             THEN RobustMutex_lock_after_recover(x[2])
                             ELSE RobustMutex_lock_branch(x[1])) } }

\* low_level_lock(), a variant that does not keep the mutex of a dead owner
low_level_lock_owner_not_kept(t, res) ==
    IF res = "true" THEN t ELSE rm_owner

\* low_level_lock(): the owner of the mutex after the call; it is the caller
\* unless the call threw, also when it reports a dead owner
low_level_lock_owner(t, res) ==
    IF res = "throw" THEN rm_owner ELSE t

\* a thread calls lock(recover_func)
RLockCall(t) ==
    /\ rpc[t] = "idle"
    /\ rpc' = [rpc EXCEPT ![t] = "lll"]
    /\ lllRes' = [lllRes EXCEPT ![t] = "none"]
    /\ rexc' = [rexc EXCEPT ![t] = "none"]
    /\ recoverThrew' = [recoverThrew EXCEPT ![t] = "none"]
    /\ nrecover' = [nrecover EXCEPT ![t] = 0]
    /\ nmark' = [nmark EXCEPT ![t] = 0]
    /\ UNCHANGED <<robust, rm_owner, rm_state, nDeaths, nFalse>>
    /\ RobustFrame

\* lock(): bool no_thread_has_died = low_level_lock(); and the branch on it
RLowLevelLock(t) ==
    /\ rpc[t] = "lll"
    /\ \E res \in low_level_lock_results :
        /\ lllRes' = [lllRes EXCEPT ![t] = res]
        /\ rm_owner' = low_level_lock_owner(t, res)
        /\ rexc' = [rexc EXCEPT ![t] = IF res = "throw" THEN "NotRecoverable" ELSE @]
        /\ nFalse' = IF res = "false" THEN nFalse + 1 ELSE nFalse
        /\ rpc' = [rpc EXCEPT ![t] = RobustMutex_lock_branch(res)]
    /\ UNCHANGED <<robust, rm_state, recoverThrew, nrecover, nmark, nDeaths>>
    /\ RobustFrame

\* lock(): recover_func() runs and returns or throws
RRecover(t) ==
    /\ rpc[t] = "recover"
    /\ \E outcome \in RecoverOutcomes :
        /\ rexc' = [rexc EXCEPT ![t] = IF outcome = "ok" THEN @ ELSE outcome]
        /\ recoverThrew' = [recoverThrew EXCEPT ![t] = IF outcome = "ok" THEN @ ELSE outcome]
        /\ rpc' = [rpc EXCEPT ![t] = RobustMutex_lock_after_recover(outcome)]
    /\ nrecover' = [nrecover EXCEPT ![t] = @ + 1]
    /\ UNCHANGED <<robust, rm_owner, rm_state, lllRes, nmark, nDeaths, nFalse>>
    /\ RobustFrame

\* lock(): mark_as_consistent(), then back to the caller
RMark(t) ==
    /\ rpc[t] = "mark"
    /\ mark_as_consistent(t)
    /\ nmark' = [nmark EXCEPT ![t] = @ + 1]
    /\ rpc' = [rpc EXCEPT ![t] = "held"]
    /\ UNCHANGED <<robust, rm_owner, lllRes, rexc, recoverThrew, nrecover, nDeaths, nFalse>>
    /\ RobustFrame

\* lock(): the catch block
RCatch(t) ==
    /\ rpc[t] = "catch"
    /\ RobustMutex_lock_catch(t)
    /\ UNCHANGED <<robust, lllRes, recoverThrew, nrecover, nmark, nDeaths, nFalse>>
    /\ RobustFrame

\* the holder calls unlock()
RUnlock(t) ==
    /\ rpc[t] = "held"
    /\ RobustMutex_unlock(t)
    /\ rpc' = [rpc EXCEPT ![t] = "idle"]
    /\ UNCHANGED <<robust, lllRes, rexc, recoverThrew, nrecover, nmark, nDeaths, nFalse>>
    /\ RobustFrame

\* the caller of a lock() that threw handles the exception and goes on
RHandle(t) ==
    /\ rpc[t] = "threw"
    /\ rpc' = [rpc EXCEPT ![t] = "idle"]
    /\ UNCHANGED <<robust, rm_owner, rm_state, lllRes, rexc, recoverThrew,
                   nrecover, nmark, nDeaths, nFalse>>
    /\ RobustFrame

\* a thread dies while it owns the mutex (never calls unlock or
\* mark_as_consistent): a robust mutex is freed and flagged, any other stays
\* locked for good
RDie(t) ==
    /\ rm_owner = t
    /\ rpc[t] \in {"held", "recover", "mark", "catch"}
    /\ rpc' = [rpc EXCEPT ![t] = "dead"]
    /\ rm_owner' = IF robust THEN NoThread ELSE rm_owner
    /\ rm_state' = IF robust THEN "inconsistent" ELSE rm_state
    /\ nDeaths' = nDeaths + 1
    /\ UNCHANGED <<robust, lllRes, rexc, recoverThrew, nrecover, nmark, nFalse>>
    /\ RobustFrame

RobustNext ==
    \E t \in Threads :
        \/ RLockCall(t)
        \/ RLowLevelLock(t)
        \/ RRecover(t)
        \/ RMark(t)
        \/ RCatch(t)
        \/ RUnlock(t)
        \/ RHandle(t)
        \/ RDie(t)

RobustInit == MutexIdle /\ RobustStart /\ CondIdle /\ GuardIdle /\ RWaitIdle /\ HandleIdle /\ AtomicIdle /\ UnlockIdle /\ LoopsIdle /\ RaceIdle /\ SemIdle /\ CasLoopIdle /\ CloseIdle /\ ThreadIdle

SpecRobust == RobustInit /\ [][RobustNext]_vars

\* the threads whose lock() call has left the function, normally or by throwing
LockExited(t) == rpc[t] \in {"held", "threw"}

\* C5: on a robust platform every death of a holder is reported by exactly
\* one low_level_lock() returning false: the count of false results never
\* exceeds the count of deaths and lags it by one exactly while the mutex lies
\* free and flagged; and a lock() that returned normally (fast path, or
\* recovery followed by mark_as_consistent) leaves its caller owning a
\* consistent mutex, so that later lockers see true until another holder dies.
C5_DeathReportedOnce ==
    /\ robust =>
        /\ nFalse <= nDeaths
        /\ nDeaths - nFalse =
             (IF rm_state = "inconsistent" /\ rm_owner = NoThread THEN 1 ELSE 0)
    /\ \A t \in Threads :
        rpc[t] = "held" =>
            /\ rm_owner = t
            /\ rm_state = "consistent"

\* C5 witness: one holder died, one locker was told so and recovered, and a
\* later locker now holds the mutex by the fast path.
C5_Witness ==
    /\ robust
    /\ nDeaths = 1
    /\ nFalse = 1
    /\ \E t, u \in Threads :
        /\ t # u
        /\ rpc[t] = "held" /\ lllRes[t] = "true"
        /\ rpc[u] = "idle" /\ lllRes[u] = "false" /\ nmark[u] = 1

\* C6: once the mutex is not recoverable it stays so and nobody acquires it;
\* every low_level_lock() then leaves lock() at once with NotRecoverable,
\* without blocking (the step is enabled) and without a call of recover_func;
\* and a lock() that has propagated a recovery failure has left the mutex in
\* that state.
C6_UnrecoverableTerminal ==
    /\ [](\A t \in Threads :
            /\ (rm_state = "notrecoverable" /\ rpc[t] = "lll")
                  => ENABLED RLowLevelLock(t)
            /\ (rpc[t] = "threw" /\ recoverThrew[t] # "none")
                  => rm_state = "notrecoverable")
    /\ [][rm_state = "notrecoverable" =>
            /\ rm_state' = "notrecoverable"
            /\ rm_owner' = NoThread
            /\ \A t \in Threads :
                 (rpc[t] = "lll" /\ rpc'[t] # "lll") =>
                     /\ rpc'[t] = "threw"
                     /\ rexc'[t] = "NotRecoverable"
                     /\ nrecover'[t] = 0
                     /\ nmark'[t] = 0]_vars

\* C6 witness: a recovery failed, and a later lock() attempt of another thread
\* has failed on the unrecoverable mutex.
C6_Witness ==
    /\ rm_state = "notrecoverable"
    /\ \E t, u \in Threads :
        /\ t # u
        /\ recoverThrew[t] # "none"
        /\ rpc[u] = "threw" /\ lllRes[u] = "throw" /\ rexc[u] = "NotRecoverable"

\* C7: a lock() whose recover_func threw leaves the function with that same
\* exception, after unlock() and without mark_as_consistent(): the caller does
\* not own the mutex, and the mutex, released while inconsistent, is not
\* recoverable.
C7_RecoveryFailurePropagates ==
    \A t \in Threads :
        (rpc[t] = "threw" /\ nrecover[t] > 0) =>
            /\ rm_owner # t
            /\ nmark[t] = 0
            /\ recoverThrew[t] # "none"
            /\ rexc[t] = recoverThrew[t]
            /\ rm_state = "notrecoverable"

\* C7 witness: recover_func threw an exception other than NotRecoverable and
\* lock() has passed it on.
C7_Witness ==
    \E t \in Threads :
        /\ rpc[t] = "threw"
        /\ nrecover[t] = 1
        /\ recoverThrew[t] = "Other"

\* C8: recover_func has been called (once) exactly in the lock() calls whose
\* low_level_lock() returned false, never more than once per call; a call
\* whose low_level_lock() returned true is back at its caller, owning the
\* mutex, with neither recover_func nor mark_as_consistent called.
C8_RecoverIffDied ==
    \A t \in Threads :
        /\ nrecover[t] <= 1
        /\ nrecover[t] = 1 => lllRes[t] = "false"
        /\ LockExited(t) => (nrecover[t] = 1 <=> lllRes[t] = "false")
        /\ (lllRes[t] = "true" /\ LockExited(t)) =>
              /\ rpc[t] = "held"
              /\ rm_owner = t
              /\ nrecover[t] = 0
              /\ nmark[t] = 0

\* C8 witness: one lock() call took the fast path earlier, and another call
\* now holds the mutex after one recovery.
C8_Witness ==
    \E t, u \in Threads :
        /\ t # u
        /\ rpc[t] = "held" /\ lllRes[t] = "false"
        /\ nrecover[t] = 1 /\ nmark[t] = 1
        /\ rpc[u] = "idle" /\ lllRes[u] = "true"

\* C29: recover_func runs under exclusivity.  A thread that is in the recovery
\* of lock() (callback, mark_as_consistent() or the catch block before its
\* unlock) owns the mutex and no other thread is inside the critical section
\* or in a recovery of its own; and no lock() returns to its caller with the
\* mutex still inconsistent.
C29_RecoveryUnderExclusivity ==
    \A t \in Threads :
        /\ rpc[t] \in {"recover", "mark", "catch"} =>
              /\ rm_owner = t
              /\ \A u \in Threads \ {t} :
                    rpc[u] \notin {"held", "recover", "mark", "catch"}
        /\ rpc[t] = "held" => (rm_owner = t /\ rm_state = "consistent")

\* a thread runs the recovery for a dead owner while another thread is
\* blocked in low_level_lock()
C29_Witness ==
    \E t, u, d \in Threads :
        /\ rpc[d] = "dead"
        /\ rpc[t] = "recover" /\ rm_state = "inconsistent"
        /\ rpc[u] = "lll"

(* ------------- LockGuard, UniqueLock, RobustLockGuard ----------------- *)
(* The guards of the Mutex (m_impl) and of the RobustMutex (rm_owner,       *)
(* rm_state).  A thread enters a scope by constructing a guard, runs the    *)
(* protected code, which may call lock()/unlock() on a UniqueLock and may   *)
(* throw, and leaves the scope, which runs the destructor of the guard.     *)

\* variables that no guard action touches
GuardFrame ==
    UNCHANGED <<mtmp, counter, mrounds, process_shared, robust, rpc, lllRes, rexc,
                recoverThrew, nrecover, nmark, nDeaths, nFalse, cvars, wvars,
                hvars, avars, uvars, lvars, pvars, svars, kvars, dvars, tvars,
                g_any>>

\* UniqueLock::lock: m_mutex->lock(); m_is_locked = true
UniqueLock_lock(t, r) ==
    /\ Mutex_lock(t, r)
    /\ IF r = 0
         THEN m_is_locked' = [m_is_locked EXCEPT ![t] = TRUE]
         ELSE UNCHANGED m_is_locked

\* UniqueLock::unlock, a variant that forgets to clear the flag
UniqueLock_unlock_keeps_flag(t) ==
    /\ Mutex_unlock(t)
    /\ mpc' = [mpc EXCEPT ![t] = "idle"]
    /\ UNCHANGED m_is_locked

\* UniqueLock::unlock: m_mutex->unlock(); m_is_locked = false
UniqueLock_unlock(t) ==
    /\ Mutex_unlock(t)
    /\ mpc' = [mpc EXCEPT ![t] = "idle"]
    /\ m_is_locked' = [m_is_locked EXCEPT ![t] = FALSE]

\* the scope of thread t is entered with a guard of kind k that has made
\* nl successful lock calls
ScopeEntered(t, k, nl) ==
    /\ gkind' = [gkind EXCEPT ![t] = k]
    /\ gpc' = [gpc EXCEPT ![t] = "body"]
    /\ g_nlock' = [g_nlock EXCEPT ![t] = nl]
    /\ g_nunlock' = [g_nunlock EXCEPT ![t] = 0]
    /\ gscopes' = [gscopes EXCEPT ![t] = @ + 1]
    /\ gops' = [gops EXCEPT ![t] = 0]
    /\ gexit' = [gexit EXCEPT ![t] = "none"]

\* thread t may enter a scope
MayEnter(t) ==
    /\ ~m_terminated
    /\ gpc[t] = "outside"
    /\ gscopes[t] < MaxScopes

\* LockGuard::LockGuard(Mutex&): m_mutex.lock()
GLockGuard(t) ==
    /\ MayEnter(t)
    /\ \E r \in pthread_mutex_lock_results(m_impl) :
        /\ Mutex_lock(t, r)
        /\ IF r = 0
             THEN ScopeEntered(t, "LockGuard", 1)
             ELSE UNCHANGED <<gkind, gpc, g_nlock, g_nunlock, gscopes, gops, gexit>>
    /\ UNCHANGED <<m_is_locked, rm_owner, rm_state, g_misused>>
    /\ GuardFrame

\* UniqueLock::UniqueLock(Mutex&): m_mutex->lock(); m_is_locked = true
GUniqueLock(t) ==
    /\ MayEnter(t)
    /\ \E r \in pthread_mutex_lock_results(m_impl) :
        /\ UniqueLock_lock(t, r)
        /\ IF r = 0
             THEN ScopeEntered(t, "UniqueLock", 1)
             ELSE UNCHANGED <<gkind, gpc, g_nlock, g_nunlock, gscopes, gops, gexit>>
    /\ UNCHANGED <<rm_owner, rm_state, g_misused>>
    /\ GuardFrame

\* UniqueLock::UniqueLock(Mutex&, defer_lock_tag): m_is_locked = false
GUniqueLockDeferred(t) ==
    /\ MayEnter(t)
    /\ ScopeEntered(t, "UniqueLock", 0)
    /\ m_is_locked' = [m_is_locked EXCEPT ![t] = FALSE]
    /\ UNCHANGED <<m_impl, mpc, m_terminated, rm_owner, rm_state, g_misused>>
    /\ GuardFrame

\* a RobustLockGuard constructor that throws, a variant after which the guard
\* exists all the same
RobustLockGuard_ctor_threw_keeps_guard(t) ==
    /\ gexit' = [gexit EXCEPT ![t] = "ctor_threw"]
    /\ gscopes' = [gscopes EXCEPT ![t] = @ + 1]
    /\ gkind' = [gkind EXCEPT ![t] = "RobustLockGuard"]
    /\ gpc' = [gpc EXCEPT ![t] = "body"]
    /\ g_nlock' = [g_nlock EXCEPT ![t] = 0]
    /\ g_nunlock' = [g_nunlock EXCEPT ![t] = 0]
    /\ UNCHANGED gops

\* RobustLockGuard::RobustLockGuard, lines 496-501, when m_mutex.lock(func)
\* throws: the exception leaves the constructor, no guard exists and no
\* destructor will run
RobustLockGuard_ctor_threw(t) ==
    /\ gexit' = [gexit EXCEPT ![t] = "ctor_threw"]
    /\ gscopes' = [gscopes EXCEPT ![t] = @ + 1]
    /\ gkind' = [gkind EXCEPT ![t] = "none"]
    /\ g_nlock' = [g_nlock EXCEPT ![t] = 0]
    /\ g_nunlock' = [g_nunlock EXCEPT ![t] = 0]
    /\ UNCHANGED <<gpc, gops>>

\* RobustLockGuard::RobustLockGuard(RobustMutex&, TFunc): m_mutex.lock(func),
\* taken as one step: the fast path, a recovery that succeeds, a recovery
\* that fails (unlock() in the catch block, rethrow), or a mutex that is not
\* recoverable.  A constructor that throws leaves no guard behind.
GRobustLockGuard(t) ==
    /\ MayEnter(t)
    /\ \E o \in RobustMutex_lock_outcomes(t) :
        /\ rm_owner' = o.owner
        /\ rm_state' = o.state
        /\ IF o.held
             THEN ScopeEntered(t, "RobustLockGuard", 1)
             ELSE RobustLockGuard_ctor_threw(t)
    /\ UNCHANGED <<m_impl, mpc, m_terminated, m_is_locked, g_misused>>
    /\ GuardFrame

\* the protected code calls UniqueLock::lock(): m_mutex->lock();
\* m_is_locked = true.  Called on a guard that already holds the mutex the
\* call never returns: pthread_mutex_lock blocks for good or fails.
ULock(t) ==
    /\ ~m_terminated
    /\ gpc[t] = "body"
    /\ gkind[t] = "UniqueLock"
    /\ gops[t] < MaxOps
    /\ g_any \/ ~m_is_locked[t]
    /\ \E r \in pthread_mutex_lock_results(m_impl) :
        /\ UniqueLock_lock(t, r)
        /\ IF r = 0
             THEN /\ g_nlock' = [g_nlock EXCEPT ![t] = @ + 1]
                  /\ gops' = [gops EXCEPT ![t] = @ + 1]
             ELSE UNCHANGED <<g_nlock, gops>>
    /\ UNCHANGED <<gkind, gpc, g_nunlock, gscopes, gexit, rm_owner, rm_state, g_misused>>
    /\ GuardFrame

\* the protected code calls UniqueLock::unlock(): m_mutex->unlock();
\* m_is_locked = false
UUnlock(t) ==
    /\ ~m_terminated
    /\ gpc[t] = "body"
    /\ gkind[t] = "UniqueLock"
    /\ gops[t] < MaxOps
    /\ g_any \/ m_is_locked[t]
    /\ UniqueLock_unlock(t)
    /\ g_misused' = (g_misused \/ ~m_is_locked[t])
    /\ g_nunlock' = [g_nunlock EXCEPT ![t] = @ + 1]
    /\ gops' = [gops EXCEPT ![t] = @ + 1]
    /\ UNCHANGED <<m_terminated, gkind, gpc, g_nlock, gscopes, gexit, rm_owner, rm_state>>
    /\ GuardFrame

\* the protected code throws: the scope is left by stack unwinding
GThrow(t) ==
    /\ ~m_terminated
    /\ gpc[t] = "body"
    /\ gpc' = [gpc EXCEPT ![t] = "error"]
    /\ UNCHANGED <<m_impl, mpc, m_terminated, rm_owner, rm_state, gkind, m_is_locked,
                   g_nlock, g_nunlock, gscopes, gops, gexit, g_misused>>
    /\ GuardFrame

\* LockGuard::~LockGuard: m_mutex.unlock()
LockGuard_dtor(t) ==
    /\ Mutex_unlock(t)
    /\ mpc' = [mpc EXCEPT ![t] = "idle"]
    /\ g_nunlock' = [g_nunlock EXCEPT ![t] = @ + 1]
    /\ UNCHANGED <<rm_owner, rm_state>>

\* UniqueLock::~UniqueLock, a variant without the test of m_is_locked
UniqueLock_dtor_unconditional(t) ==
    /\ Mutex_unlock(t)
    /\ mpc' = [mpc EXCEPT ![t] = "idle"]
    /\ g_nunlock' = [g_nunlock EXCEPT ![t] = @ + 1]
    /\ UNCHANGED <<rm_owner, rm_state>>

\* UniqueLock::~UniqueLock: if (m_is_locked) m_mutex->unlock()
UniqueLock_dtor(t) ==
    IF m_is_locked[t]
      THEN /\ Mutex_unlock(t)
           /\ mpc' = [mpc EXCEPT ![t] = "idle"]
           /\ g_nunlock' = [g_nunlock EXCEPT ![t] = @ + 1]
           /\ UNCHANGED <<rm_owner, rm_state>>
      ELSE UNCHANGED <<m_impl, mpc, g_nunlock, rm_owner, rm_state>>

\* RobustLockGuard::~RobustLockGuard: m_mutex.unlock()
RobustLockGuard_dtor(t) ==
    /\ RobustMutex_unlock(t)
    /\ g_nunlock' = [g_nunlock EXCEPT ![t] = @ + 1]
    /\ UNCHANGED <<m_impl, mpc>>

\* the scope ends, normally or by the exception in flight: the destructor of
\* the guard runs
GExit(t) ==
    /\ ~m_terminated
    /\ gpc[t] \in {"body", "error"}
    /\ CASE gkind[t] = "LockGuard" -> LockGuard_dtor(t)
         [] gkind[t] = "UniqueLock" -> UniqueLock_dtor(t)
         [] gkind[t] = "RobustLockGuard" -> RobustLockGuard_dtor(t)
    /\ gpc' = [gpc EXCEPT ![t] = "outside"]
    /\ gexit' = [gexit EXCEPT ![t] = IF gpc[t] = "error" THEN "error" ELSE "normal"]
    /\ UNCHANGED <<m_terminated, gkind, m_is_locked, g_nlock, gscopes, gops, g_misused>>
    /\ GuardFrame

\* a thread dies inside the scope of a RobustLockGuard: no destructor runs,
\* the robust mutex is freed and flagged
GDie(t) ==
    /\ ~m_terminated
    /\ gpc[t] = "body"
    /\ gkind[t] = "RobustLockGuard"
    /\ rm_owner = t
    /\ gpc' = [gpc EXCEPT ![t] = "dead"]
    /\ rm_owner' = NoThread
    /\ rm_state' = "inconsistent"
    /\ UNCHANGED <<m_impl, mpc, m_terminated, gkind, m_is_locked, g_nlock, g_nunlock,
                   gscopes, gops, gexit, g_misused>>
    /\ GuardFrame

GuardNext ==
    \E t \in GThreads :
        \/ GLockGuard(t)
        \/ GUniqueLock(t)
        \/ GUniqueLockDeferred(t)
        \/ GRobustLockGuard(t)
        \/ ULock(t)
        \/ UUnlock(t)
        \/ GThrow(t)
        \/ GExit(t)
        \/ GDie(t)

\* the guards used as documented: lock() on a UniqueLock that is unlocked,
\* unlock() on one that is locked
GuardInit == MutexIdle /\ RobustIdle /\ CondIdle /\ GuardStart /\ ~g_any /\ RWaitIdle /\ HandleIdle /\ AtomicIdle /\ UnlockIdle /\ LoopsIdle /\ RaceIdle /\ SemIdle /\ CasLoopIdle /\ CloseIdle /\ ThreadIdle

SpecGuard == GuardInit /\ [][GuardNext]_vars

\* the guards with lock() and unlock() of a UniqueLock called in any order
GuardAnyInit == MutexIdle /\ RobustIdle /\ CondIdle /\ GuardStart /\ g_any /\ RWaitIdle /\ HandleIdle /\ AtomicIdle /\ UnlockIdle /\ LoopsIdle /\ RaceIdle /\ SemIdle /\ CasLoopIdle /\ CloseIdle /\ ThreadIdle

SpecGuardAny == GuardAnyInit /\ [][GuardNext]_vars

\* the mutex the guard of thread t is bound to is owned by t
GuardOwns(t) ==
    IF gkind[t] = "RobustLockGuard" THEN rm_owner = t ELSE m_impl = t

\* C12: a LockGuard and a RobustLockGuard hold exactly one lock from
\* construction to the end of the scope; when a scope has ended, normally or
\* by an exception, the guard has unlocked exactly as often as it had locked
\* (once for LockGuard and RobustLockGuard), a constructor that threw has
\* locked and unlocked nothing, and the thread owns neither mutex; and the
\* step that ends the scope of a guard that holds its mutex leaves that mutex
\* unlocked.
C12_GuardUnlocksOnce ==
    /\ [](\A t \in GThreads :
            /\ (gpc[t] \in {"body", "error"} /\ gkind[t] # "UniqueLock") =>
                  /\ g_nlock[t] = 1 /\ g_nunlock[t] = 0
                  /\ GuardOwns(t)
            /\ gpc[t] = "outside" =>
                  /\ g_nunlock[t] = g_nlock[t]
                  /\ m_impl # t /\ rm_owner # t
                  /\ gexit[t] \in {"normal", "error"} /\ gkind[t] # "UniqueLock"
                        => g_nunlock[t] = 1
                  /\ gexit[t] = "ctor_threw" => g_nlock[t] = 0)
    /\ [][\A t \in GThreads :
            (gpc[t] \in {"body", "error"} /\ gpc'[t] = "outside" /\ GuardOwns(t)) =>
                IF gkind[t] = "RobustLockGuard"
                  THEN rm_owner' = NoThread
                  ELSE m_impl' = NoThread]_vars

\* C12 witness: a UniqueLock that was unlocked and locked again inside its
\* scope has been destroyed by an exception, after a scope of the same thread
\* that ended normally.
C12_Witness ==
    \E t \in GThreads :
        /\ gpc[t] = "outside"
        /\ gscopes[t] = 2
        /\ gexit[t] = "error"
        /\ gkind[t] = "UniqueLock"
        /\ g_nlock[t] = 2
        /\ g_nunlock[t] = 2

\* what C13 says of the UniqueLock of thread t: inside its scope m_is_locked
\* is true exactly when the guard holds its mutex (the thread owns it, once:
\* the mutex has one owner), a deferred construction has acquired nothing,
\* and after the destructor the thread does not own the mutex
FlagReflectsLock(t) ==
    gkind[t] = "UniqueLock" =>
        /\ gpc[t] \in {"body", "error"} =>
              /\ m_is_locked[t] <=> m_impl = t
              /\ (gops[t] = 0 /\ g_nlock[t] = 0) => m_impl # t
        /\ gpc[t] = "outside" => m_impl # t

\* C13 as stated: for any sequence of lock()/unlock() calls on the
\* UniqueLocks, the flag of each is true exactly when it holds its mutex, a
\* deferred construction acquires nothing and destruction leaves the mutex
\* released.
C13_FlagReflectsLock ==
    \A t \in GThreads : FlagReflectsLock(t)

\* C13 amended: the same, for any sequence of lock()/unlock() calls in which
\* unlock() is called only on a UniqueLock whose flag is true.
C13_FlagReflectsLockIfUnlockedWhenLocked ==
    ~g_misused => \A t \in GThreads : FlagReflectsLock(t)

\* C13 witness: a UniqueLock constructed deferred was locked and unlocked
\* again inside its scope, and another thread now holds the mutex through its
\* own UniqueLock.
C13_Witness ==
    /\ ~g_misused
    /\ \E t, u \in GThreads :
        /\ t # u
        /\ gkind[t] = "UniqueLock" /\ gpc[t] = "body"
        /\ g_nlock[t] = 1 /\ g_nunlock[t] = 1 /\ ~m_is_locked[t]
        /\ gkind[u] = "UniqueLock" /\ gpc[u] = "body"
        /\ m_is_locked[u] /\ m_impl = u

\* C30: a RobustLockGuard constructor that throws leaves the thread without
\* the mutex and without a guard: lock() has released the mutex itself (once,
\* in its catch block, which makes it not recoverable) or has never acquired
\* it; no destructor runs for that scope; and every unlock made by a
\* RobustLockGuard destructor is made by the owner of the mutex.
C30_FailedGuardUnlocksNothing ==
    /\ [][\A t \in GThreads :
            /\ (gscopes'[t] # gscopes[t] /\ gexit'[t] = "ctor_threw") =>
                  /\ rm_owner' = rm_owner /\ rm_owner' # t
                  /\ rm_state' = "notrecoverable"
                  /\ gpc'[t] = "outside" /\ gkind'[t] = "none"
            /\ (g_nunlock'[t] > g_nunlock[t] /\ gkind[t] = "RobustLockGuard") =>
                  rm_owner = t]_vars
    /\ [](\A t \in GThreads :
            gexit[t] = "ctor_threw" => (g_nunlock[t] = 0 /\ rm_owner # t))

\* the recovery of a thread's RobustLockGuard constructor has failed after
\* another thread died in its scope, and the thread has gone on without a
\* guard
C30_Witness ==
    \E t, d \in GThreads :
        /\ gpc[d] = "dead"
        /\ gexit[t] = "ctor_threw" /\ gpc[t] = "outside"
        /\ rm_state = "notrecoverable" /\ rm_owner = NoThread

(* ----------------------------- CondVar -------------------------------- *)
(* The condition variable is used as in a monitor (thread.hpp:274): wait(),  *)
(* notify() and notify_all() are called by the thread that holds the mutex,  *)
(* so the SharedPart is read and written under the mutex only.               *)

\* variables that no CondVar action touches
CondFrame == UNCHANGED <<mvars, rvars, gvars, wvars, hvars, avars, uvars, lvars, pvars, svars, kvars, dvars, tvars>>

\* the waiters inside wait(): registered, and not yet returned
Registered(t) ==
    cpc[t] \in {"sem_wait", "relock", "postback", "cond_blocked", "cond_relock"}

RegisteredSet == {t \in Waiters : Registered(t)}

\* CondVar::wait(LockGuard&), up to the point where the caller blocks.
\* Emulation (lines 615-619): waiters++, my_counter = signal_counter, unlock.
\* Native (line 637): pthread_cond_wait releases the mutex and blocks on cond.
CondVar_wait_enter(t) ==
    IF emulation
      THEN /\ waiters' = waiters + 1
           /\ my_counter' = [my_counter EXCEPT ![t] = signal_counter]
           /\ cv_mutex' = NoThread
           /\ cpc' = [cpc EXCEPT ![t] = "sem_wait"]
           /\ UNCHANGED cond_waitset
      ELSE /\ cond_waitset' = cond_waitset \cup {t}
           /\ cv_mutex' = NoThread
           /\ cpc' = [cpc EXCEPT ![t] = "cond_blocked"]
           /\ UNCHANGED <<waiters, my_counter>>

\* the emulation loop, a variant that leaves the loop on any permit
CondVar_wait_check_always_breaks(sc, my) == "woken"

\* the emulation loop, lines 624-625, after sem_wait and lock():
\* if (signal_counter != my_counter) break;
CondVar_wait_check(sc, my) ==
    IF sc # my THEN "woken" ELSE "postback"

\* the emulation loop, lines 626-628: sem_post; sched_yield; unlock
CondVar_wait_postback(t) ==
    /\ sem' = sem + 1
    /\ cv_mutex' = NoThread
    /\ cpc' = [cpc EXCEPT ![t] = "sem_wait"]

\* CondVar::notify under emulation, a variant without the test of waiters
CondVar_notify_emulated_unguarded ==
    /\ signal_counter' = signal_counter + 1
    /\ sem' = sem + 1
    /\ waiters' = waiters - 1
    /\ nPosted' = nPosted + 1

\* CondVar::notify under emulation, lines 715-722
CondVar_notify_emulated ==
    /\ signal_counter' = signal_counter + 1
    /\ IF waiters > 0
         THEN /\ sem' = sem + 1
              /\ waiters' = waiters - 1
              /\ nPosted' = nPosted + 1
         ELSE UNCHANGED <<sem, waiters, nPosted>>

\* CondVar::notify_all under emulation, a variant that counts the signal once
\* for each waiter
CondVar_notify_all_emulated_counts_each ==
    /\ signal_counter' = signal_counter + waiters
    /\ sem' = sem + waiters
    /\ nPosted' = nPosted + waiters
    /\ waiters' = 0

\* CondVar::notify_all under emulation, lines 741-748: the loop runs under the
\* mutex, once for each counted waiter
CondVar_notify_all_emulated ==
    /\ signal_counter' = signal_counter + 1
    /\ sem' = sem + waiters
    /\ nPosted' = nPosted + waiters
    /\ waiters' = 0

\* pthread_cond_signal (line 728): the sets of blocked threads it may unblock,
\* at least one if any is blocked
pthread_cond_signal_wakes ==
    IF cond_waitset = {} THEN {{}} ELSE SUBSET cond_waitset \ {{}}

\* pthread_cond_broadcast (line 754): unblocks every blocked thread
pthread_cond_broadcast_wakes == {cond_waitset}

\* the native condition variable after the threads of W have been unblocked
NativeWake(n, W) ==
    /\ cond_waitset' = cond_waitset \ W
    /\ cpc' = [u \in CVThreads |->
                 IF u = n THEN "n_done"
                 ELSE IF u \in W THEN "cond_relock" ELSE cpc[u]]
    /\ UNCHANGED <<signal_counter, waiters, sem, nPosted>>

\* bookkeeping of a return from wait()
ReturnNoted(t) ==
    /\ owedAll' = owedAll \ {t}
    /\ watched' = IF t \in watched THEN {} ELSE watched

\* bookkeeping of a notify() or notify_all() call
CallNoted ==
    /\ nCalls' = nCalls + 1
    /\ notifiedSince' = [u \in Waiters |-> notifiedSince[u] \/ Registered(u)]

\* LockGuard l(mutex) of a thread about to wait
WLock(t) ==
    /\ cpc[t] = "idle"
    /\ cwaits[t] < MaxWaits
    /\ cv_mutex = NoThread
    /\ cv_mutex' = t
    /\ cpc' = [cpc EXCEPT ![t] = "locked"]
    /\ UNCHANGED <<emulation, signal_counter, waiters, sem, cond_waitset, my_counter,
                   cwaits, nCalls, nPosted, nReturned, owedAll, watched, notifiedSince>>
    /\ CondFrame

\* wait(l): the caller registers, releases the mutex and blocks
WWait(t) ==
    /\ cpc[t] = "locked"
    /\ CondVar_wait_enter(t)
    /\ notifiedSince' = [notifiedSince EXCEPT ![t] = FALSE]
    /\ UNCHANGED <<emulation, signal_counter, sem, cwaits, nCalls, nPosted,
                   nReturned, owedAll, watched>>
    /\ CondFrame

\* wait(l), emulation: sem_wait(m_sem) takes a permit
WSemWait(t) ==
    /\ cpc[t] = "sem_wait"
    /\ sem > 0
    /\ sem' = sem - 1
    /\ cpc' = [cpc EXCEPT ![t] = "relock"]
    /\ UNCHANGED <<emulation, cv_mutex, signal_counter, waiters, cond_waitset,
                   my_counter, cwaits, nCalls, nPosted, nReturned, owedAll, watched,
                   notifiedSince>>
    /\ CondFrame

\* wait(l), emulation: l.m_mutex.lock() and the test of the signal counter;
\* on a changed counter wait() returns
WRelock(t) ==
    /\ cpc[t] = "relock"
    /\ cv_mutex = NoThread
    /\ cv_mutex' = t
    /\ LET to == CondVar_wait_check(signal_counter, my_counter[t]) IN
        /\ cpc' = [cpc EXCEPT ![t] = to]
        /\ IF to = "woken"
             THEN /\ nReturned' = nReturned + 1
                  /\ ReturnNoted(t)
             ELSE UNCHANGED <<nReturned, owedAll, watched>>
    /\ UNCHANGED <<emulation, signal_counter, waiters, sem, cond_waitset, my_counter,
                   cwaits, nCalls, nPosted, notifiedSince>>
    /\ CondFrame

\* wait(l), emulation: the permit was not meant for this waiter
WPostBack(t) ==
    /\ cpc[t] = "postback"
    /\ CondVar_wait_postback(t)
    /\ UNCHANGED <<emulation, signal_counter, waiters, cond_waitset, my_counter,
                   cwaits, nCalls, nPosted, nReturned, owedAll, watched, notifiedSince>>
    /\ CondFrame

\* wait(l), native: pthread_cond_wait may wake up spuriously
WSpurious(t) ==
    /\ cpc[t] = "cond_blocked"
    /\ cond_waitset' = cond_waitset \ {t}
    /\ cpc' = [cpc EXCEPT ![t] = "cond_relock"]
    /\ UNCHANGED <<emulation, cv_mutex, signal_counter, waiters, sem, my_counter,
                   cwaits, nCalls, nPosted, nReturned, owedAll, watched, notifiedSince>>
    /\ CondFrame

\* wait(l), native: pthread_cond_wait reacquires the mutex and returns 0
WCondRelock(t) ==
    /\ cpc[t] = "cond_relock"
    /\ cv_mutex = NoThread
    /\ cv_mutex' = t
    /\ cpc' = [cpc EXCEPT ![t] = "woken"]
    /\ ReturnNoted(t)
    /\ UNCHANGED <<emulation, signal_counter, waiters, sem, cond_waitset, my_counter,
                   cwaits, nCalls, nPosted, nReturned, notifiedSince>>
    /\ CondFrame

\* ~LockGuard of a thread that has waited
WUnlock(t) ==
    /\ cpc[t] = "woken"
    /\ cv_mutex' = NoThread
    /\ cpc' = [cpc EXCEPT ![t] = "idle"]
    /\ cwaits' = [cwaits EXCEPT ![t] = @ + 1]
    /\ UNCHANGED <<emulation, signal_counter, waiters, sem, cond_waitset, my_counter,
                   nCalls, nPosted, nReturned, owedAll, watched, notifiedSince>>
    /\ CondFrame

\* LockGuard l(mutex) of a thread about to notify
NLock(n) ==
    /\ cpc[n] = "idle"
    /\ nCalls < MaxSignals
    /\ cv_mutex = NoThread
    /\ cv_mutex' = n
    /\ cpc' = [cpc EXCEPT ![n] = "n_locked"]
    /\ UNCHANGED <<emulation, signal_counter, waiters, sem, cond_waitset, my_counter,
                   cwaits, nCalls, nPosted, nReturned, owedAll, watched, notifiedSince>>
    /\ CondFrame

\* notify()
NNotify(n) ==
    /\ cpc[n] = "n_locked"
    /\ IF emulation
         THEN /\ CondVar_notify_emulated
              /\ cpc' = [cpc EXCEPT ![n] = "n_done"]
              /\ UNCHANGED cond_waitset
         ELSE \E W \in pthread_cond_signal_wakes : NativeWake(n, W)
    /\ CallNoted
    /\ watched' \in (IF watched = {} THEN {{}, RegisteredSet} ELSE {watched})
    /\ UNCHANGED <<emulation, cv_mutex, my_counter, cwaits, nReturned, owedAll>>
    /\ CondFrame

\* notify_all()
NNotifyAll(n) ==
    /\ cpc[n] = "n_locked"
    /\ IF emulation
         THEN /\ CondVar_notify_all_emulated
              /\ cpc' = [cpc EXCEPT ![n] = "n_done"]
              /\ UNCHANGED cond_waitset
         ELSE \E W \in pthread_cond_broadcast_wakes : NativeWake(n, W)
    /\ CallNoted
    /\ owedAll' = owedAll \cup RegisteredSet
    /\ UNCHANGED <<emulation, cv_mutex, my_counter, cwaits, nReturned, watched>>
    /\ CondFrame

\* ~LockGuard of a thread that has notified
NUnlock(n) ==
    /\ cpc[n] = "n_done"
    /\ cv_mutex' = NoThread
    /\ cpc' = [cpc EXCEPT ![n] = "idle"]
    /\ UNCHANGED <<emulation, signal_counter, waiters, sem, cond_waitset, my_counter,
                   cwaits, nCalls, nPosted, nReturned, owedAll, watched, notifiedSince>>
    /\ CondFrame

WaiterStep(t) ==
    \/ WLock(t)
    \/ WWait(t)
    \/ WSemWait(t)
    \/ WRelock(t)
    \/ WPostBack(t)
    \/ WSpurious(t)
    \/ WCondRelock(t)
    \/ WUnlock(t)

NotifierStep(n) ==
    \/ NLock(n)
    \/ NNotify(n)
    \/ NNotifyAll(n)
    \/ NUnlock(n)

CondNext ==
    \/ \E t \in Waiters : WaiterStep(t)
    \/ \E n \in Notifiers : NotifierStep(n)

CondInit == MutexIdle /\ RobustIdle /\ CondStart /\ GuardIdle /\ RWaitIdle /\ HandleIdle /\ AtomicIdle /\ UnlockIdle /\ LoopsIdle /\ RaceIdle /\ SemIdle /\ CasLoopIdle /\ CloseIdle /\ ThreadIdle

SpecCondVar == CondInit /\ [][CondNext]_vars

\* Scheduling: a thread that can run does run (weak fairness), and a thread
\* blocked in sem_wait or in a mutex lock gets the permit or the mutex if it
\* is available again and again (strong fairness: a semaphore and a mutex
\* that do not starve a blocked thread; sched_yield() after sem_post is there
\* to hand the permit over).  Starting a new wait or notify, and spurious
\* wake-ups, are never forced.
CondFairness ==
    /\ \A t \in Waiters :
        /\ WF_vars(WWait(t))
        /\ SF_vars(WSemWait(t))
        /\ SF_vars(WRelock(t))
        /\ WF_vars(WPostBack(t))
        /\ SF_vars(WCondRelock(t))
        /\ WF_vars(WUnlock(t))
    /\ \A n \in Notifiers :
        /\ WF_vars(NNotify(n) \/ NNotifyAll(n))
        /\ WF_vars(NUnlock(n))

FairSpecCondVar == SpecCondVar /\ CondFairness

\* permits taken from the semaphore by waiters that have neither returned nor
\* put them back yet
InHand == Cardinality({t \in Waiters : cpc[t] \in {"relock", "postback"}})

\* a step of a thread that is inside wait(), notify() or notify_all(), or that
\* holds the mutex
InsideStep ==
    \/ \E t \in Waiters :
          WWait(t) \/ WSemWait(t) \/ WRelock(t) \/ WPostBack(t) \/ WUnlock(t)
    \/ \E n \in Notifiers : NNotify(n) \/ NNotifyAll(n) \/ NUnlock(n)

\* C2: every waiter that was registered in wait() when notify_all() was called
\* eventually returns from wait(), in native and in emulated mode, also when
\* waiters call wait() again after the notify_all().
C2_NotifyAllReleasesAll ==
    \A t \in Waiters : (t \in owedAll) ~> (t \notin owedAll)

\* C3: under emulation, whenever a waiter has been granted a wake-up (a
\* notify_all() counted it and posted a permit for it) and has not returned
\* yet, some thread inside the protocol can take a step: the participants are
\* never all blocked on the semaphore or the mutex.
C3_NoDeadlock ==
    (emulation /\ owedAll # {}) => ENABLED InsideStep

C9_NotifyWakesOne ==
    (watched # {}) ~> (watched = {})

\* C10: under emulation a notify() called while no waiter is registered posts
\* no permit and leaves the semaphore and the waiter count unchanged, and a
\* wait() returns only after a notify()/notify_all() that was called after it
\* registered.
C10_NotifyWithoutWaiterIsNoOp ==
    /\ [](emulation =>
            \A t \in Waiters : cpc[t] = "woken" => notifiedSince[t])
    /\ [][(emulation /\ RegisteredSet = {} /\ \E n \in Notifiers : NNotify(n)) =>
            /\ sem' = sem
            /\ waiters' = waiters
            /\ nPosted' = nPosted]_vars

\* C10 witness: a waiter registered after a notify() that found no waiter, and
\* is blocked in sem_wait with no permit in the semaphore.
C10_Witness ==
    /\ emulation
    /\ nCalls >= 1
    /\ nPosted = 0
    /\ sem = 0
    /\ \E t \in Waiters :
        /\ cpc[t] = "sem_wait"
        /\ my_counter[t] = signal_counter
        /\ my_counter[t] >= 1

\* C24: the emulated wait().  A caller registers (waiters + 1, snapshot of the
\* signal counter) while it holds the mutex and releases the mutex in the same
\* call before it blocks on the semaphore; it returns only with a signal
\* counter other than its snapshot and with the mutex held; a retry puts
\* exactly one permit back and releases the mutex.
C24_EmulatedWaitProtocol ==
    /\ [][emulation => \A t \in Waiters :
            /\ (cpc[t] = "locked" /\ cpc'[t] # "locked") =>
                   /\ cv_mutex = t /\ cv_mutex' = NoThread
                   /\ waiters' = waiters + 1
                   /\ my_counter'[t] = signal_counter
                   /\ sem' = sem
                   /\ cpc'[t] = "sem_wait"
            /\ (cpc[t] # "woken" /\ cpc'[t] = "woken") =>
                   /\ signal_counter' # my_counter'[t]
                   /\ cv_mutex' = t
                   /\ sem' = sem
            /\ (cpc[t] = "postback" /\ cpc'[t] # "postback") =>
                   /\ cv_mutex = t /\ cv_mutex' = NoThread
                   /\ sem' = sem + 1
                   /\ cpc'[t] = "sem_wait"]_vars
    /\ [](emulation => \A t \in Waiters : cpc[t] = "sem_wait" => cv_mutex # t)

\* one waiter has returned from wait() and another, registered after the
\* notification, has taken a permit that it must put back
C24_Witness ==
    /\ emulation
    /\ \E t, u \in Waiters :
        /\ t # u
        /\ cwaits[t] = 1
        /\ cpc[u] = "postback" /\ my_counter[u] = signal_counter

\* the number of wait() calls of the waiters 1..n that have returned and
\* released the mutex
RECURSIVE WaitsDone(_)
WaitsDone(n) == IF n = 0 THEN 0 ELSE cwaits[n] + WaitsDone(n - 1)

\* the registered waiters that no notify()/notify_all() has granted a permit:
\* every registration so far, less the permits posted
Ungranted ==
    Cardinality({t \in Waiters : Registered(t) \/ cpc[t] = "woken"})
        + WaitsDone(NWaiters) - nPosted

\* C26: an emulated notify_all() called with w registered waiters that have
\* not been granted a permit adds exactly one to the signal counter, posts
\* exactly w permits and leaves the waiter count at zero.
C26_NotifyAllPostsPerWaiter ==
    [][\A n \in Notifiers : (emulation /\ NNotifyAll(n)) =>
            /\ signal_counter' = signal_counter + 1
            /\ nPosted' = nPosted + Ungranted
            /\ sem' = sem + Ungranted
            /\ waiters' = 0]_vars

\* a single notify_all() call has posted permits for two or more waiters,
\* with the signal counter at one
C26_Witness ==
    /\ emulation
    /\ nCalls = 1 /\ signal_counter = 1
    /\ nPosted >= 2 /\ waiters = 0
    /\ \E n \in Notifiers : cpc[n] = "n_done"

(* ---------------- CondVar::wait(RobustMutex&, Func, tp) ---------------- *)
(* The condition variable used with a RobustMutex (rm_owner, rm_state) on a *)
(* platform with robust mutexes.  Each waiter calls wait(m, recover_func,   *)
(* tp) once, with or without a timeout; the notifier locks the mutex, calls *)
(* notify() and unlocks, and may die while it holds the mutex.  A           *)
(* lock(recover_func) call is taken as one step.  Each thread is a process  *)
(* of its own: TIGHTDB_TERMINATE ends the calling thread, and a robust      *)
(* mutex it holds is then left to the next locker as inconsistent.          *)

\* variables that no action of this part touches
RWaitFrame ==
    UNCHANGED <<mvars, gvars, robust, rpc, lllRes, rexc, recoverThrew, nrecover, nmark,
                nDeaths, nFalse, emulation, cv_mutex, assertions, hvars, avars, uvars,
                lvars, pvars, svars, kvars, dvars, tvars>>

\* TIGHTDB_TERMINATE in thread t: its process ends; a mutex it holds is freed
\* and flagged
Terminated(t) ==
    /\ cpc' = [cpc EXCEPT ![t] = "terminated"]
    /\ rm_owner' = IF rm_owner = t THEN NoThread ELSE rm_owner
    /\ rm_state' = IF rm_owner = t THEN "inconsistent" ELSE rm_state

\* pthread_cond_wait / pthread_cond_timedwait on a robust mutex: the values r
\* the call can return once the thread has been unblocked and the mutex is
\* free.  The state of the mutex decides first (the owner died, or the mutex
\* is not recoverable); otherwise ETIMEDOUT if the time ran out, 0 if not;
\* and the call can fail for another reason.
pthread_cond_wait_results(timedout) ==
    (IF rm_state = "notrecoverable" THEN {"ENOTRECOVERABLE"}
     ELSE IF rm_state = "inconsistent" THEN {"EOWNERDEAD"}
     ELSE IF timedout THEN {"ETIMEDOUT"} ELSE {"0"}) \cup {"EOTHER"}

\* the values of r with which the caller owns the mutex again
MutexHeldAfter(r) == r \in {"0", "ETIMEDOUT", "EOWNERDEAD"}

\* wait(RobustMutex&,...), a variant without the test for ETIMEDOUT
CondVar_wait_after_r_no_timeout_test(tp, r) ==
    IF r = "0" THEN "return" ELSE "handle_wait_error"

\* wait(RobustMutex&,...), lines 676-687: where the call goes with the r of
\* the native wait
CondVar_wait_after_r(tp, r) ==
    IF tp /\ r = "ETIMEDOUT" THEN "return"
    ELSE IF r = "0" THEN "return"
    ELSE "handle_wait_error"

\* CondVar::handle_wait_error(r): returns if the owner of the mutex died (the
\* recovery follows), throws NotRecoverable if the mutex is not recoverable,
\* terminates the process on any other error
handle_wait_error(r) ==
    IF r = "EOWNERDEAD" THEN "recover"
    ELSE IF r = "ENOTRECOVERABLE" THEN "threw"
    ELSE "terminate"

\* wait(RobustMutex&,...) under emulation, line 655: TIGHTDB_ASSERT(tp == 0)
\* ends the process, in a build that compiles the assertions in
CondVar_wait_rejects(tp) == assertions /\ tp

\* wait(RobustMutex&,...), catch block, a variant that rethrows without unlock
CondVar_wait_catch_no_unlock(t) ==
    UNCHANGED <<rm_owner, rm_state, w_nunlock>>

\* wait(RobustMutex&,...), lines 696-703: catch (...) { m.unlock(); throw; }
CondVar_wait_catch(t) ==
    /\ RobustMutex_unlock(t)
    /\ w_nunlock' = [w_nunlock EXCEPT ![t] = @ + 1]

\* a waiter, which calls wait() once, locks the robust mutex:
\* m.lock(recover_func)
RWLock(t) ==
    /\ cpc[t] = "idle"
    /\ cwaits[t] = 0
    /\ \E o \in RobustMutex_lock_outcomes(t) :
        /\ rm_owner' = o.owner
        /\ rm_state' = o.state
        /\ cpc' = [cpc EXCEPT ![t] = IF o.held THEN "locked" ELSE "idle"]
    /\ UNCHANGED <<signal_counter, waiters, sem, cond_waitset, my_counter, cwaits,
                   nCalls, nPosted, nReturned, owedAll, watched, notifiedSince, w_tp,
                   w_timedout, w_r, w_result, w_exc, w_recoverThrew, w_nrecover,
                   w_nmark, w_nunlock>>
    /\ RWaitFrame

\* wait(m, recover_func, tp), up to the point where the caller blocks.
\* Emulation (lines 653-658): the assertions, waiters++, my_counter =
\* signal_counter, m.unlock().  Native (lines 678-681): pthread_cond_wait or
\* pthread_cond_timedwait releases the mutex and blocks.
RWWait(t) ==
    /\ cpc[t] = "locked"
    /\ \E tp \in BOOLEAN :
        /\ w_tp' = [w_tp EXCEPT ![t] = tp]
        /\ IF emulation /\ CondVar_wait_rejects(tp)
             THEN /\ Terminated(t)
                  /\ UNCHANGED <<waiters, my_counter, cond_waitset>>
             ELSE /\ CondVar_wait_enter(t)
                  /\ RobustMutex_unlock(t)
    /\ notifiedSince' = [notifiedSince EXCEPT ![t] = FALSE]
    /\ w_timedout' = [w_timedout EXCEPT ![t] = FALSE]
    /\ w_r' = [w_r EXCEPT ![t] = "none"]
    /\ w_result' = [w_result EXCEPT ![t] = "none"]
    /\ w_exc' = [w_exc EXCEPT ![t] = "none"]
    /\ w_recoverThrew' = [w_recoverThrew EXCEPT ![t] = "none"]
    /\ w_nrecover' = [w_nrecover EXCEPT ![t] = 0]
    /\ w_nmark' = [w_nmark EXCEPT ![t] = 0]
    /\ w_nunlock' = [w_nunlock EXCEPT ![t] = 0]
    /\ UNCHANGED <<signal_counter, sem, cwaits, nCalls, nPosted, nReturned, owedAll,
                   watched>>
    /\ RWaitFrame

\* wait(m,...), emulation: sem_wait(m_sem) takes a permit
RWSemWait(t) ==
    /\ cpc[t] = "sem_wait"
    /\ sem > 0
    /\ sem' = sem - 1
    /\ cpc' = [cpc EXCEPT ![t] = "relock"]
    /\ UNCHANGED <<signal_counter, waiters, cond_waitset, my_counter, cwaits, nCalls,
                   nPosted, nReturned, owedAll, watched, notifiedSince, w_tp,
                   w_timedout, w_r, w_result, w_exc, w_recoverThrew, w_nrecover,
                   w_nmark, w_nunlock, rm_owner, rm_state>>
    /\ RWaitFrame

\* wait(m,...), emulation, lines 662-664: m.lock(recover_func), which may
\* recover and may throw, and the test of the signal counter
RWRelock(t) ==
    /\ cpc[t] = "relock"
    /\ \E o \in RobustMutex_lock_outcomes(t) :
        /\ rm_owner' = o.owner
        /\ rm_state' = o.state
        /\ w_nrecover' = [w_nrecover EXCEPT ![t] = @ + (IF o.recovered THEN 1 ELSE 0)]
        /\ w_exc' = [w_exc EXCEPT ![t] = o.exc]
        /\ LET to == IF o.held THEN CondVar_wait_check(signal_counter, my_counter[t])
                     ELSE "threw" IN
            /\ cpc' = [cpc EXCEPT ![t] = to]
            /\ w_result' = [w_result EXCEPT ![t] =
                              IF to = "woken" THEN "returned"
                              ELSE IF to = "threw" THEN "threw" ELSE @]
            /\ IF to = "woken"
                 THEN /\ nReturned' = nReturned + 1
                      /\ ReturnNoted(t)
                 ELSE UNCHANGED <<nReturned, owedAll, watched>>
    /\ UNCHANGED <<signal_counter, waiters, sem, cond_waitset, my_counter, cwaits,
                   nCalls, nPosted, notifiedSince, w_tp, w_timedout, w_r,
                   w_recoverThrew, w_nmark, w_nunlock>>
    /\ RWaitFrame

\* wait(m,...), emulation, lines 665-667: sem_post, sched_yield, m.unlock()
RWPostBack(t) ==
    /\ cpc[t] = "postback"
    /\ sem' = sem + 1
    /\ RobustMutex_unlock(t)
    /\ cpc' = [cpc EXCEPT ![t] = "sem_wait"]
    /\ UNCHANGED <<signal_counter, waiters, cond_waitset, my_counter, cwaits, nCalls,
                   nPosted, nReturned, owedAll, watched, notifiedSince, w_tp,
                   w_timedout, w_r, w_result, w_exc, w_recoverThrew, w_nrecover,
                   w_nmark, w_nunlock>>
    /\ RWaitFrame

\* wait(m,..., tp), native: the time of pthread_cond_timedwait runs out
RWTimeout(t) ==
    /\ cpc[t] = "cond_blocked"
    /\ w_tp[t]
    /\ cond_waitset' = cond_waitset \ {t}
    /\ w_timedout' = [w_timedout EXCEPT ![t] = TRUE]
    /\ cpc' = [cpc EXCEPT ![t] = "cond_relock"]
    /\ UNCHANGED <<signal_counter, waiters, sem, my_counter, cwaits, nCalls, nPosted,
                   nReturned, owedAll, watched, notifiedSince, w_tp, w_r, w_result,
                   w_exc, w_recoverThrew, w_nrecover, w_nmark, w_nunlock, rm_owner,
                   rm_state>>
    /\ RWaitFrame

\* wait(m,...), native: the native wait reacquires the mutex and returns r;
\* lines 682-687: return on 0 and on ETIMEDOUT, otherwise handle_wait_error(r)
RWCondRelock(t) ==
    /\ cpc[t] = "cond_relock"
    /\ rm_owner = NoThread
    /\ \E r \in pthread_cond_wait_results(w_timedout[t]) :
        /\ w_r' = [w_r EXCEPT ![t] = r]
        /\ LET to == IF CondVar_wait_after_r(w_tp[t], r) = "return" THEN "woken"
                     ELSE handle_wait_error(r) IN
            /\ IF to = "terminate"
                 THEN /\ cpc' = [cpc EXCEPT ![t] = "terminated"]
                      /\ rm_owner' = NoThread
                      /\ rm_state' = IF MutexHeldAfter(r) THEN "inconsistent" ELSE rm_state
                 ELSE /\ cpc' = [cpc EXCEPT ![t] = to]
                      /\ rm_owner' = IF MutexHeldAfter(r) THEN t ELSE rm_owner
                      /\ UNCHANGED rm_state
            /\ w_result' = [w_result EXCEPT ![t] =
                              IF to = "woken" THEN "returned"
                              ELSE IF to = "threw" THEN "threw" ELSE @]
            /\ w_exc' = [w_exc EXCEPT ![t] = IF to = "threw" THEN "NotRecoverable" ELSE @]
            /\ IF to = "woken" THEN ReturnNoted(t) ELSE UNCHANGED <<owedAll, watched>>
    /\ UNCHANGED <<signal_counter, waiters, sem, cond_waitset, my_counter, cwaits,
                   nCalls, nPosted, nReturned, notifiedSince, w_tp, w_timedout,
                   w_recoverThrew, w_nrecover, w_nmark, w_nunlock>>
    /\ RWaitFrame

\* wait(m,...), line 689: recover_func() runs and returns or throws
RWRecover(t) ==
    /\ cpc[t] = "recover"
    /\ \E outcome \in RecoverOutcomes :
        /\ w_recoverThrew' = [w_recoverThrew EXCEPT ![t] = IF outcome = "ok" THEN @ ELSE outcome]
        /\ w_exc' = [w_exc EXCEPT ![t] = IF outcome = "ok" THEN @ ELSE outcome]
        /\ cpc' = [cpc EXCEPT ![t] = RobustMutex_lock_after_recover(outcome)]
    /\ w_nrecover' = [w_nrecover EXCEPT ![t] = @ + 1]
    /\ UNCHANGED <<signal_counter, waiters, sem, cond_waitset, my_counter, cwaits,
                   nCalls, nPosted, nReturned, owedAll, watched, notifiedSince, w_tp,
                   w_timedout, w_r, w_result, w_nmark, w_nunlock, rm_owner, rm_state>>
    /\ RWaitFrame

\* wait(m,...), line 690: m.mark_as_consistent(), then back to the caller
RWMark(t) ==
    /\ cpc[t] = "mark"
    /\ mark_as_consistent(t)
    /\ w_nmark' = [w_nmark EXCEPT ![t] = @ + 1]
    /\ cpc' = [cpc EXCEPT ![t] = "woken"]
    /\ w_result' = [w_result EXCEPT ![t] = "returned"]
    /\ ReturnNoted(t)
    /\ UNCHANGED <<signal_counter, waiters, sem, cond_waitset, my_counter, cwaits,
                   nCalls, nPosted, nReturned, notifiedSince, w_tp, w_timedout, w_r,
                   w_exc, w_recoverThrew, w_nrecover, w_nunlock, rm_owner>>
    /\ RWaitFrame

\* wait(m,...), the catch block
RWCatch(t) ==
    /\ cpc[t] = "catch"
    /\ CondVar_wait_catch(t)
    /\ cpc' = [cpc EXCEPT ![t] = "threw"]
    /\ w_result' = [w_result EXCEPT ![t] = "threw"]
    /\ UNCHANGED <<signal_counter, waiters, sem, cond_waitset, my_counter, cwaits,
                   nCalls, nPosted, nReturned, owedAll, watched, notifiedSince, w_tp,
                   w_timedout, w_r, w_exc, w_recoverThrew, w_nrecover, w_nmark>>
    /\ RWaitFrame

\* the caller of a wait() that returned unlocks the mutex
RWUnlock(t) ==
    /\ cpc[t] = "woken"
    /\ RobustMutex_unlock(t)
    /\ cpc' = [cpc EXCEPT ![t] = "idle"]
    /\ cwaits' = [cwaits EXCEPT ![t] = @ + 1]
    /\ UNCHANGED <<signal_counter, waiters, sem, cond_waitset, my_counter, nCalls,
                   nPosted, nReturned, owedAll, watched, notifiedSince, w_tp,
                   w_timedout, w_r, w_result, w_exc, w_recoverThrew, w_nrecover,
                   w_nmark, w_nunlock>>
    /\ RWaitFrame

\* the caller of a wait() that threw handles the exception
RWHandle(t) ==
    /\ cpc[t] = "threw"
    /\ cpc' = [cpc EXCEPT ![t] = "idle"]
    /\ cwaits' = [cwaits EXCEPT ![t] = @ + 1]
    /\ UNCHANGED <<signal_counter, waiters, sem, cond_waitset, my_counter, nCalls,
                   nPosted, nReturned, owedAll, watched, notifiedSince, w_tp,
                   w_timedout, w_r, w_result, w_exc, w_recoverThrew, w_nrecover,
                   w_nmark, w_nunlock, rm_owner, rm_state>>
    /\ RWaitFrame

\* a notifier locks the robust mutex: m.lock(recover_func)
RNLock(n) ==
    /\ cpc[n] = "idle"
    /\ nCalls < MaxSignals
    /\ \E o \in RobustMutex_lock_outcomes(n) :
        /\ rm_owner' = o.owner
        /\ rm_state' = o.state
        /\ cpc' = [cpc EXCEPT ![n] = IF o.held THEN "n_locked" ELSE "idle"]
    /\ UNCHANGED <<signal_counter, waiters, sem, cond_waitset, my_counter, cwaits,
                   nCalls, nPosted, nReturned, owedAll, watched, notifiedSince, w_tp,
                   w_timedout, w_r, w_result, w_exc, w_recoverThrew, w_nrecover,
                   w_nmark, w_nunlock>>
    /\ RWaitFrame

\* a notifier unlocks the robust mutex
RNUnlock(n) ==
    /\ cpc[n] = "n_done"
    /\ RobustMutex_unlock(n)
    /\ cpc' = [cpc EXCEPT ![n] = "idle"]
    /\ UNCHANGED <<signal_counter, waiters, sem, cond_waitset, my_counter, cwaits,
                   nCalls, nPosted, nReturned, owedAll, watched, notifiedSince, w_tp,
                   w_timedout, w_r, w_result, w_exc, w_recoverThrew, w_nrecover,
                   w_nmark, w_nunlock>>
    /\ RWaitFrame

\* a notifier dies while it holds the mutex
RNDie(n) ==
    /\ cpc[n] \in {"n_locked", "n_done"}
    /\ rm_owner = n
    /\ cpc' = [cpc EXCEPT ![n] = "dead"]
    /\ rm_owner' = NoThread
    /\ rm_state' = "inconsistent"
    /\ UNCHANGED <<signal_counter, waiters, sem, cond_waitset, my_counter, cwaits,
                   nCalls, nPosted, nReturned, owedAll, watched, notifiedSince, w_tp,
                   w_timedout, w_r, w_result, w_exc, w_recoverThrew, w_nrecover,
                   w_nmark, w_nunlock>>
    /\ RWaitFrame

RWaiterStep(t) ==
    \/ RWLock(t)
    \/ RWWait(t)
    \/ RWSemWait(t)
    \/ RWRelock(t)
    \/ RWPostBack(t)
    \/ RWTimeout(t)
    \/ RWCondRelock(t)
    \/ RWRecover(t)
    \/ RWMark(t)
    \/ RWCatch(t)
    \/ RWUnlock(t)
    \/ RWHandle(t)

RNotifierStep(n) ==
    \/ RNLock(n)
    \/ NNotify(n)
    \/ RNUnlock(n)
    \/ RNDie(n)

RWaitNext ==
    \/ \E t \in RWaiters : RWaiterStep(t)
    \/ RNotifierStep(FirstNotifier)

RWaitInit == MutexIdle /\ RobustIdle /\ CondStart /\ GuardIdle /\ RWaitStart /\ HandleIdle /\ AtomicIdle /\ UnlockIdle /\ LoopsIdle /\ RaceIdle /\ SemIdle /\ CasLoopIdle /\ CloseIdle /\ ThreadIdle

SpecRobustWait == RWaitInit /\ [][RWaitNext]_vars

\* what the caller of wait(m, recover_func, tp) can tell from how the call
\* ended: it returned (the function is void) or it threw, and what
Observed(t) == <<w_result[t], w_exc[t]>>

\* C14: a timed wait whose time ran out (the native wait returned ETIMEDOUT)
\* has returned to its caller, which owns the consistent mutex, without a call
\* of recover_func, mark_as_consistent() or unlock(); and the steps of a wait
\* that times out change nothing of the shared signal state: the signal
\* counter, the waiter count, the semaphore, and which other threads are
\* blocked on the native condition variable.
C14_TimeoutHasNoSideEffect ==
    /\ [](\A t \in RWaiters :
            w_r[t] = "ETIMEDOUT" =>
                /\ w_tp[t]
                /\ w_result[t] = "returned"
                /\ w_nrecover[t] = 0 /\ w_nmark[t] = 0 /\ w_nunlock[t] = 0
                /\ cpc[t] = "woken" => (rm_owner = t /\ rm_state = "consistent"))
    /\ [][\A t \in RWaiters :
            (cpc[t] \in {"cond_blocked", "cond_relock"} /\ cpc'[t] # cpc[t]
               /\ w_timedout'[t]) =>
                /\ signal_counter' = signal_counter
                /\ waiters' = waiters
                /\ sem' = sem
                /\ cond_waitset' = cond_waitset \ {t}]_vars

\* C14 witness: a timed wait has returned on its timeout while another waiter
\* is still blocked on the condition variable.
C14_Witness ==
    \E t, u \in RWaiters :
        /\ t # u
        /\ w_r[t] = "ETIMEDOUT" /\ cpc[t] = "woken"
        /\ u \in cond_waitset

\* C15: what the caller sees of a wait that timed out differs from what it
\* sees of a wait that was woken normally (the native wait returned 0) and
\* from what it sees of a wait that failed.
C15_TimeoutDistinguished ==
    \A t, u \in RWaiters :
        (w_r[t] = "ETIMEDOUT" /\ w_result[t] # "none" /\ w_result[u] # "none") =>
            /\ w_r[u] = "0" => Observed(t) # Observed(u)
            /\ w_result[u] = "threw" => Observed(t) # Observed(u)

\* C16: a native wait that returned an error other than a timeout goes the
\* way RobustMutex::lock goes.  If the owner of the mutex died, recover_func
\* is called once, with the mutex held; when it returns, mark_as_consistent()
\* is called and wait() returns with the consistent mutex held; when it
\* throws, the mutex is unlocked without mark_as_consistent(), which leaves it
\* not recoverable, and wait() throws what recover_func threw.  If the mutex
\* is not recoverable, wait() throws NotRecoverable without a recovery.  A
\* wait that returned 0 or timed out has run no recovery.
C16_WaitErrorRunsRecovery ==
    \A t \in RWaiters :
        /\ w_r[t] = "EOWNERDEAD" =>
            /\ cpc[t] \in {"recover", "mark", "catch"} => rm_owner = t
            /\ cpc[t] \in {"mark", "catch", "woken", "threw"} => w_nrecover[t] = 1
            /\ cpc[t] = "woken" =>
                /\ w_nmark[t] = 1 /\ w_nunlock[t] = 0
                /\ rm_owner = t /\ rm_state = "consistent"
                /\ w_result[t] = "returned"
            /\ cpc[t] = "threw" =>
                /\ w_nmark[t] = 0 /\ w_nunlock[t] = 1
                /\ rm_owner # t /\ rm_state = "notrecoverable"
                /\ w_result[t] = "threw"
                /\ w_recoverThrew[t] # "none" /\ w_exc[t] = w_recoverThrew[t]
        /\ w_r[t] = "ENOTRECOVERABLE" =>
            /\ cpc[t] \in {"threw", "idle"}
            /\ w_exc[t] = "NotRecoverable"
            /\ w_nrecover[t] = 0 /\ w_nmark[t] = 0 /\ w_nunlock[t] = 0
        /\ w_r[t] \in {"0", "ETIMEDOUT"} =>
            w_nrecover[t] = 0 /\ w_nmark[t] = 0 /\ w_nunlock[t] = 0

\* C16 witness: the owner of the mutex died while a waiter with a timeout had
\* been notified; the waiter ran the recovery and has returned from wait().
C16_Witness ==
    \E t \in RWaiters :
        /\ w_r[t] = "EOWNERDEAD"
        /\ w_tp[t] /\ ~w_timedout[t]
        /\ cpc[t] = "woken"
        /\ w_nmark[t] = 1
        /\ cpc[FirstNotifier] = "dead"

\* C17: under emulation a wait(m, recover_func, tp) with a timeout is rejected
\* at its check: the process ends there, the caller is never counted as a
\* waiter and never gets to sample the signal counter or to wait.
C17_TimeoutRejectedUnderEmulation ==
    \A t \in RWaiters :
        (emulation /\ w_tp[t]) => cpc[t] = "terminated"


(* --------------------- CondVar handles and close() --------------------- *)
(* Several CondVar handles, each in a process of its own.  A handle made by  *)
(* CondVar() owns a native condition variable; the others are bound to the  *)
(* one SharedPart (signal_counter and waiters under emulation, the shared   *)
(* native condition variable cond_waitset otherwise).  Threads lock the     *)
(* mutex and wait through the handle of their process, a notifying thread  *)
(* notifies through any handle that is open; close() is called on a handle  *)
(* that no thread is using.                                                 *)

\* variables that no action of this part touches
HandleFrame ==
    UNCHANGED <<mvars, rvars, gvars, wvars, avars, emulation, nReturned, owedAll, watched,
                notifiedSince, uvars, lvars, pvars, svars, kvars, dvars, tvars>>

\* wait() and notify() can be called on the handle: it has the semaphore
\* open, or owns a condition variable, or (native build) is bound to the
\* shared one
Usable(h) == m_sem[h] \/ m_cond[h] \/ (~emulation /\ m_shared_part[h])

\* the native condition variable the handle uses when m_sem is null:
\* cond = m_cond, and without emulation, if (m_shared_part) cond =
\* &m_shared_part->m_impl.  0 stands for the shared one, h for the one h owns.
NativeCond(h) == IF ~emulation /\ m_shared_part[h] THEN 0 ELSE h

\* the threads blocked on native condition variable c
Blocked(c) == IF c = 0 THEN cond_waitset ELSE l_waitset[c]

\* the threads blocked on native condition variable c become S
SetBlocked(c, S) ==
    IF c = 0
      THEN cond_waitset' = S /\ UNCHANGED l_waitset
      ELSE l_waitset' = [l_waitset EXCEPT ![c] = S] /\ UNCHANGED cond_waitset

\* CondVar::close, a variant that also clears the SharedPart
CondVar_close_clears_shared_part(h) ==
    /\ IF m_sem[h]
         THEN /\ m_sem' = [m_sem EXCEPT ![h] = FALSE]
              /\ UNCHANGED <<m_cond, m_shared_part>>
         ELSE /\ m_cond' = [m_cond EXCEPT ![h] = FALSE]
              /\ m_shared_part' = [m_shared_part EXCEPT ![h] = FALSE]
              /\ UNCHANGED m_sem
    /\ signal_counter' = 0
    /\ waiters' = 0
    /\ cond_waitset' = {}
    /\ UNCHANGED <<sem, l_waitset>>

\* CondVar::close, a variant that leaves m_cond set after the delete
CondVar_close_keeps_m_cond(h) ==
    /\ IF m_sem[h]
         THEN /\ m_sem' = [m_sem EXCEPT ![h] = FALSE]
              /\ UNCHANGED <<m_cond, m_shared_part>>
         ELSE /\ m_shared_part' = [m_shared_part EXCEPT ![h] = FALSE]
              /\ UNCHANGED <<m_sem, m_cond>>
    /\ UNCHANGED <<signal_counter, waiters, sem, cond_waitset, l_waitset>>

\* CondVar::close, lines 560-576.  With m_sem set: sem_close, m_sem = 0 and
\* return (m_shared_part stays).  Otherwise: the own condition variable, if
\* any, is destroyed and deleted, m_cond = 0, and m_shared_part = 0.
CondVar_close(h) ==
    /\ IF m_sem[h]
         THEN /\ m_sem' = [m_sem EXCEPT ![h] = FALSE]
              /\ UNCHANGED <<m_cond, m_shared_part>>
         ELSE /\ m_cond' = [m_cond EXCEPT ![h] = FALSE]
              /\ m_shared_part' = [m_shared_part EXCEPT ![h] = FALSE]
              /\ UNCHANGED m_sem
    /\ UNCHANGED <<signal_counter, waiters, sem, cond_waitset, l_waitset>>

\* pthread_cond_signal on a condition variable with the threads S blocked:
\* the sets it may unblock, at least one thread if any is blocked
pthread_cond_signal_wakes_of(S) ==
    IF S = {} THEN {{}} ELSE SUBSET S \ {{}}

\* a waiter, which calls wait() once through the handle of its process if
\* that is open, locks the mutex
HLock(t) ==
    /\ cpc[t] = "idle"
    /\ cwaits[t] = 0
    /\ cv_mutex = NoThread
    /\ Usable(t)
    /\ h_of' = [h_of EXCEPT ![t] = t]
    /\ cv_mutex' = t
    /\ cpc' = [cpc EXCEPT ![t] = "locked"]
    /\ UNCHANGED <<signal_counter, waiters, sem, cond_waitset, my_counter, cwaits,
                   nCalls, nPosted, m_sem, m_cond, m_shared_part, l_waitset,
                   h_afterClose>>
    /\ HandleFrame

\* wait(l) through handle h_of[t], up to the point where the caller blocks
\* (lines 611-619 and 637)
HWait(t) ==
    /\ cpc[t] = "locked"
    /\ LET h == h_of[t] IN
        IF m_sem[h]
          THEN /\ waiters' = waiters + 1
               /\ my_counter' = [my_counter EXCEPT ![t] = signal_counter]
               /\ cpc' = [cpc EXCEPT ![t] = "sem_wait"]
               /\ UNCHANGED <<cond_waitset, l_waitset>>
          ELSE /\ SetBlocked(NativeCond(h), Blocked(NativeCond(h)) \cup {t})
               /\ cpc' = [cpc EXCEPT ![t] = "cond_blocked"]
               /\ UNCHANGED <<waiters, my_counter>>
    /\ cv_mutex' = NoThread
    /\ h_afterClose' = [h_afterClose EXCEPT ![t] = \E g \in Handles : ~Usable(g)]
    /\ UNCHANGED <<signal_counter, sem, cwaits, nCalls, nPosted, m_sem, m_cond,
                   m_shared_part, h_of>>
    /\ HandleFrame

\* wait(l), emulation: sem_wait(m_sem) takes a permit
HSemWait(t) ==
    /\ cpc[t] = "sem_wait"
    /\ sem > 0
    /\ sem' = sem - 1
    /\ cpc' = [cpc EXCEPT ![t] = "relock"]
    /\ UNCHANGED <<cv_mutex, signal_counter, waiters, cond_waitset, my_counter, cwaits,
                   nCalls, nPosted, m_sem, m_cond, m_shared_part, l_waitset, h_of,
                   h_afterClose>>
    /\ HandleFrame

\* wait(l), emulation: lock() and the test of the signal counter
HRelock(t) ==
    /\ cpc[t] = "relock"
    /\ cv_mutex = NoThread
    /\ cv_mutex' = t
    /\ cpc' = [cpc EXCEPT ![t] = CondVar_wait_check(signal_counter, my_counter[t])]
    /\ UNCHANGED <<signal_counter, waiters, sem, cond_waitset, my_counter, cwaits,
                   nCalls, nPosted, m_sem, m_cond, m_shared_part, l_waitset, h_of,
                   h_afterClose>>
    /\ HandleFrame

\* wait(l), emulation: the permit was not for this waiter
HPostBack(t) ==
    /\ cpc[t] = "postback"
    /\ CondVar_wait_postback(t)
    /\ UNCHANGED <<signal_counter, waiters, cond_waitset, my_counter, cwaits, nCalls,
                   nPosted, m_sem, m_cond, m_shared_part, l_waitset, h_of,
                   h_afterClose>>
    /\ HandleFrame

\* wait(l), native: the unblocked thread gets the mutex back and returns
HCondRelock(t) ==
    /\ cpc[t] = "cond_relock"
    /\ cv_mutex = NoThread
    /\ cv_mutex' = t
    /\ cpc' = [cpc EXCEPT ![t] = "woken"]
    /\ UNCHANGED <<signal_counter, waiters, sem, cond_waitset, my_counter, cwaits,
                   nCalls, nPosted, m_sem, m_cond, m_shared_part, l_waitset, h_of,
                   h_afterClose>>
    /\ HandleFrame

\* the waiter has returned from wait() and unlocks the mutex
HUnlock(t) ==
    /\ cpc[t] = "woken"
    /\ cv_mutex' = NoThread
    /\ cpc' = [cpc EXCEPT ![t] = "idle"]
    /\ cwaits' = [cwaits EXCEPT ![t] = @ + 1]
    /\ h_of' = [h_of EXCEPT ![t] = 0]
    /\ UNCHANGED <<signal_counter, waiters, sem, cond_waitset, my_counter, nCalls,
                   nPosted, m_sem, m_cond, m_shared_part, l_waitset, h_afterClose>>
    /\ HandleFrame

\* the notifier picks an open handle and locks the mutex
HNLock(n) ==
    /\ cpc[n] = "idle"
    /\ nCalls < MaxSignals
    /\ cv_mutex = NoThread
    /\ \E h \in Handles :
        /\ Usable(h)
        /\ h_of' = [h_of EXCEPT ![n] = h]
    /\ cv_mutex' = n
    /\ cpc' = [cpc EXCEPT ![n] = "n_locked"]
    /\ UNCHANGED <<signal_counter, waiters, sem, cond_waitset, my_counter, cwaits,
                   nCalls, nPosted, m_sem, m_cond, m_shared_part, l_waitset,
                   h_afterClose>>
    /\ HandleFrame

\* notify() through handle h_of[n], lines 711-731
HNotify(n) ==
    /\ cpc[n] = "n_locked"
    /\ LET h == h_of[n] IN
        IF m_sem[h]
          THEN /\ CondVar_notify_emulated
               /\ cpc' = [cpc EXCEPT ![n] = "n_done"]
               /\ UNCHANGED <<cond_waitset, l_waitset>>
          ELSE /\ \E W \in pthread_cond_signal_wakes_of(Blocked(NativeCond(h))) :
                    /\ SetBlocked(NativeCond(h), Blocked(NativeCond(h)) \ W)
                    /\ cpc' = [u \in CVThreads |->
                                 IF u = n THEN "n_done"
                                 ELSE IF u \in W THEN "cond_relock" ELSE cpc[u]]
               /\ UNCHANGED <<signal_counter, waiters, sem, nPosted>>
    /\ nCalls' = nCalls + 1
    /\ UNCHANGED <<cv_mutex, my_counter, cwaits, m_sem, m_cond, m_shared_part, h_of,
                   h_afterClose>>
    /\ HandleFrame

\* the notifier unlocks the mutex
HNUnlock(n) ==
    /\ cpc[n] = "n_done"
    /\ cv_mutex' = NoThread
    /\ cpc' = [cpc EXCEPT ![n] = "idle"]
    /\ h_of' = [h_of EXCEPT ![n] = 0]
    /\ UNCHANGED <<signal_counter, waiters, sem, cond_waitset, my_counter, cwaits,
                   nCalls, nPosted, m_sem, m_cond, m_shared_part, l_waitset,
                   h_afterClose>>
    /\ HandleFrame

\* close() on an open handle that no thread is using
HClose(h) ==
    /\ Usable(h)
    /\ \A t \in HThreads : h_of[t] # h
    /\ CondVar_close(h)
    /\ UNCHANGED <<cv_mutex, cpc, my_counter, cwaits, nCalls, nPosted, h_of,
                   h_afterClose>>
    /\ HandleFrame

HWaiterStep(t) ==
    \/ HLock(t)
    \/ HWait(t)
    \/ HSemWait(t)
    \/ HRelock(t)
    \/ HPostBack(t)
    \/ HCondRelock(t)
    \/ HUnlock(t)

HNotifierStep(n) ==
    \/ HNLock(n)
    \/ HNotify(n)
    \/ HNUnlock(n)

HandleNext ==
    \/ \E t \in HWaiters : HWaiterStep(t)
    \/ HNotifierStep(FirstNotifier)
    \/ \E h \in Handles : HClose(h)

HandleInit == MutexIdle /\ RobustIdle /\ CondStart /\ GuardIdle /\ RWaitIdle /\ HandleStart /\ AtomicIdle /\ UnlockIdle /\ LoopsIdle /\ RaceIdle /\ SemIdle /\ CasLoopIdle /\ CloseIdle /\ ThreadIdle

SpecHandles == HandleInit /\ [][HandleNext]_vars

\* C18: a close() of handle h sets its m_sem and m_cond to null and changes
\* nothing else: the SharedPart (signal counter, waiter count, threads
\* blocked on the shared condition variable), the semaphore, and every other
\* handle with the threads blocked on its own condition variable stay as they
\* were.  A notify() through a handle bound to the SharedPart, made when
\* another handle has been closed, does what notify() does: under emulation
\* it increments the signal counter and, if a waiter is counted, posts the
\* semaphore once and uncounts it; natively it unblocks a thread if one is
\* blocked on the shared condition variable.
C18_CloseLeavesSharedPart ==
    /\ [][\A h \in Handles :
            (Usable(h) /\ ~Usable(h)') =>
                /\ UNCHANGED <<signal_counter, waiters, sem, cond_waitset>>
                /\ ~m_sem'[h] /\ ~m_cond'[h]
                /\ \A g \in Handles \ {h} :
                    /\ m_sem'[g] = m_sem[g]
                    /\ m_cond'[g] = m_cond[g]
                    /\ m_shared_part'[g] = m_shared_part[g]
                    /\ l_waitset'[g] = l_waitset[g]]_vars
    /\ [][\A n \in {FirstNotifier} :
            (/\ cpc[n] = "n_locked" /\ cpc'[n] = "n_done"
             /\ m_shared_part[h_of[n]]
             /\ \E g \in Handles : ~Usable(g)) =>
                IF emulation
                  THEN /\ signal_counter' = signal_counter + 1
                       /\ waiters > 0 => (sem' = sem + 1 /\ waiters' = waiters - 1)
                  ELSE cond_waitset # {} =>
                         (cond_waitset' # cond_waitset /\ cond_waitset' \subseteq cond_waitset)]_vars

\* C18 witness: under emulation a handle bound to the SharedPart has been
\* closed; a waiter that registered after that through another handle has
\* been notified and has returned from wait().
C18_Witness ==
    \E t \in HWaiters, g \in Handles :
        /\ emulation
        /\ ~m_sem[g] /\ m_shared_part[g]
        /\ h_afterClose[t]
        /\ cpc[t] = "woken"
        /\ m_sem[h_of[t]]


(* ------------------------------ Atomic<T> ------------------------------ *)
(* One Atomic<T> shared by NAThreads threads.  Every operation modelled    *)
(* here is one call of a std::atomic member or of a compiler builtin, which *)
(* is a single atomic step.  Values of T wrap around at 2^TBits.  The       *)
(* memory order of an operation decides which builtin call is made, and is  *)
(* kept in the name of the operation; it has no effect on the value.        *)

\* variables that no action of this part touches
AtomicFrame == UNCHANGED <<mvars, rvars, cvars, gvars, wvars, hvars, a_variant, uvars, lvars, pvars, svars, kvars, dvars, tvars>>

\* std::atomic<T>::fetch_add (lines 881, 887): the new value of the cell
std_atomic_fetch_add(s, v) == (s + v) % TModulus

\* std::atomic<T>::fetch_sub (lines 869, 875, 893)
std_atomic_fetch_sub(s, v) == (s + TModulus - v) % TModulus

\* __atomic_fetch_add (lines 1001, 1007)
atomic_fetch_add(s, v) == (s + v) % TModulus

\* __atomic_fetch_sub (lines 989, 995, 1013)
atomic_fetch_sub(s, v) == (s + TModulus - v) % TModulus

\* __sync_fetch_and_add, a variant that loses the addition
sync_fetch_and_add_lost(s, v) == s

\* __sync_fetch_and_add (lines 1102, 1108)
sync_fetch_and_add(s, v) == (s + v) % TModulus

\* __sync_fetch_and_sub (lines 1090, 1096, 1114)
sync_fetch_and_sub(s, v) == (s + TModulus - v) % TModulus

\* Atomic<T>::fetch_add_release / fetch_add_acquire: the value stored; the
\* call returns the value found
Atomic_fetch_add(s, v) ==
    CASE a_variant = "cxx11" -> std_atomic_fetch_add(s, v)
      [] a_variant = "gcc47" -> atomic_fetch_add(s, v)
      [] a_variant = "legacy" -> sync_fetch_and_add(s, v)

\* Atomic<T>::fetch_sub_relaxed / fetch_sub_release / fetch_sub_acquire
Atomic_fetch_sub(s, v) ==
    CASE a_variant = "cxx11" -> std_atomic_fetch_sub(s, v)
      [] a_variant = "gcc47" -> atomic_fetch_sub(s, v)
      [] a_variant = "legacy" -> sync_fetch_and_sub(s, v)

\* the memory orders in which the class offers the two operations
FetchAddOrders == {"release", "acquire"}
FetchSubOrders == {"relaxed", "release", "acquire"}

\* std::atomic<T>::compare_exchange_weak(expected, desired), line 917: the
\* possible outcomes [state, oldvalue, ret].  It stores desired and returns
\* true if the cell holds expected; it may fail spuriously; on failure it
\* loads the value of the cell into expected.
compare_exchange_weak(s, e, n) ==
    IF s = e
      THEN {[state |-> n, oldvalue |-> e, ret |-> TRUE],
            [state |-> s, oldvalue |-> s, ret |-> FALSE]}
      ELSE {[state |-> s, oldvalue |-> s, ret |-> FALSE]}

\* __atomic_compare_exchange_n(&state, &oldvalue, newvalue, false, ...),
\* line 1037: the strong form
atomic_compare_exchange_n(s, e, n) ==
    IF s = e
      THEN {[state |-> n, oldvalue |-> e, ret |-> TRUE]}
      ELSE {[state |-> s, oldvalue |-> s, ret |-> FALSE]}

\* __sync_val_compare_and_swap(&state, oldvalue, newvalue): the value stored;
\* the call returns the value found
sync_val_compare_and_swap(s, e, n) == IF s = e THEN n ELSE s

\* the legacy compare_and_swap, a variant that compares with newvalue
compare_and_swap_legacy_compares_newvalue(s, e, n) ==
    LET ov == e
        oldvalue == s
    IN  {[state |-> sync_val_compare_and_swap(s, e, n), oldvalue |-> oldvalue,
          ret |-> (n = oldvalue)]}

\* the legacy compare_and_swap, a variant that leaves oldvalue as passed
compare_and_swap_legacy_keeps_oldvalue(s, e, n) ==
    LET ov == e
        found == s
    IN  {[state |-> sync_val_compare_and_swap(s, e, n), oldvalue |-> ov,
          ret |-> (ov = found)]}

\* the legacy compare_and_swap, lines 1156-1158: T ov = oldvalue; oldvalue =
\* __sync_val_compare_and_swap(...); return (ov == oldvalue);
compare_and_swap_legacy(s, e, n) ==
    LET ov == e
        oldvalue == s
    IN  {[state |-> sync_val_compare_and_swap(s, e, n), oldvalue |-> oldvalue,
          ret |-> (ov = oldvalue)]}

\* Atomic<T>::compare_and_swap(oldvalue, newvalue)
Atomic_compare_and_swap(s, e, n) ==
    CASE a_variant = "cxx11" -> compare_exchange_weak(s, e, n)
      [] a_variant = "gcc47" -> atomic_compare_exchange_n(s, e, n)
      [] a_variant = "legacy" -> compare_and_swap_legacy(s, e, n)

\* thread t calls fetch_add_release(v) or fetch_add_acquire(v)
AFetchAdd(t) ==
    /\ a_nops[t] < MaxAtomicOps
    /\ \E order \in FetchAddOrders, v \in AArgs \ {0} :
        /\ state' = Atomic_fetch_add(state, v)
        /\ a_last' = [op |-> "fetch_add_" \o order, expected |-> 0, arg |-> v,
                      oldvalue |-> 0, ret |-> FALSE]
        /\ a_net' = (a_net + v) % TModulus
        /\ a_other' = (a_other \/ v # 1)
    /\ a_nops' = [a_nops EXCEPT ![t] = @ + 1]
    /\ UNCHANGED a_replaced
    /\ AtomicFrame

\* thread t calls fetch_sub_relaxed(v), fetch_sub_release(v) or
\* fetch_sub_acquire(v)
AFetchSub(t) ==
    /\ a_nops[t] < MaxAtomicOps
    /\ \E order \in FetchSubOrders, v \in AArgs \ {0} :
        /\ state' = Atomic_fetch_sub(state, v)
        /\ a_last' = [op |-> "fetch_sub_" \o order, expected |-> 0, arg |-> v,
                      oldvalue |-> 0, ret |-> FALSE]
        /\ a_net' = (a_net + TModulus - v) % TModulus
    /\ a_nops' = [a_nops EXCEPT ![t] = @ + 1]
    /\ a_other' = TRUE
    /\ UNCHANGED a_replaced
    /\ AtomicFrame

\* thread t calls compare_and_swap(oldvalue, newvalue) with oldvalue = e
ACompareAndSwap(t) ==
    /\ a_nops[t] < MaxAtomicOps
    /\ \E e \in AArgs, n \in AArgs :
        \E o \in Atomic_compare_and_swap(state, e, n) :
            /\ state' = o.state
            /\ a_last' = [op |-> "compare_and_swap", expected |-> e, arg |-> n,
                          oldvalue |-> o.oldvalue, ret |-> o.ret]
            /\ a_replaced' = (a_replaced \/ o.state # state)
    /\ a_nops' = [a_nops EXCEPT ![t] = @ + 1]
    /\ a_other' = TRUE
    /\ UNCHANGED a_net
    /\ AtomicFrame

AtomicNext ==
    \/ \E t \in AThreads : AFetchAdd(t)
    \/ \E t \in AThreads : AFetchSub(t)
    \/ \E t \in AThreads : ACompareAndSwap(t)

AtomicInit ==
    MutexIdle /\ RobustIdle /\ CondIdle /\ GuardIdle /\ RWaitIdle /\ HandleIdle /\ AtomicStart /\ UnlockIdle /\ LoopsIdle /\ RaceIdle /\ SemIdle /\ CasLoopIdle /\ CloseIdle /\ ThreadIdle

SpecAtomic == AtomicInit /\ [][AtomicNext]_vars

\* C19: every compare_and_swap(oldvalue, newvalue) step that returns true
\* found the cell holding the value oldvalue had at the call and leaves the
\* cell holding newvalue, in each of the three implementations and whatever
\* the other threads did before.
C19_CasSuccessStoresNew ==
    [][((a_nops' # a_nops) /\ a_last'.op = "compare_and_swap" /\ a_last'.ret) =>
          /\ state = a_last'.expected
          /\ state' = a_last'.arg
          /\ a_last'.oldvalue = a_last'.expected]_vars

\* C19 witness: under the weak C++11 form a compare_and_swap has returned true
\* and has changed the value, after the other thread had changed it too.
C19_Witness ==
    /\ a_variant = "cxx11"
    /\ a_last.op = "compare_and_swap" /\ a_last.ret
    /\ a_last.expected # a_last.arg
    /\ a_last.expected # 0
    /\ state = a_last.arg
    /\ \A u \in AThreads : a_nops[u] > 0

\* C20: as long as no compare_and_swap has replaced the value, the cell holds
\* the sum of everything added minus everything subtracted (modulo 2^TBits),
\* however the fetch_add and fetch_sub calls of the threads interleave; so
\* when each of the NAThreads threads has done nothing but MaxAtomicOps calls
\* of fetch_add(1), the cell holds NAThreads * MaxAtomicOps.
C20_NoLostAtomicUpdate ==
    /\ ~a_replaced => state = a_net
    /\ (~a_other /\ \A t \in AThreads : a_nops[t] = MaxAtomicOps) =>
          state = NAThreads * MaxAtomicOps

\* C20 witness: under the legacy implementation every thread has made all its
\* calls, each a fetch_add(1).
C20_Witness ==
    /\ a_variant = "legacy"
    /\ ~a_other
    /\ \A t \in AThreads : a_nops[t] = MaxAtomicOps
    /\ a_last.op \in {"fetch_add_release", "fetch_add_acquire"}


(* ------------- a retry loop around compare_and_swap ------------------- *)
(* The first thread loops on compare_and_swap(oldvalue, newvalue) with the  *)
(* same variable oldvalue until the call returns true, while the other      *)
(* threads make their fetch_add calls.                                      *)

\* variables that no step of the loop touches
CasLoopFrame ==
    UNCHANGED <<mvars, rvars, cvars, gvars, wvars, hvars, a_variant, a_last, a_net,
                a_other, a_replaced, uvars, lvars, pvars, svars, dvars, tvars>>

\* the thread sets up oldvalue and newvalue and enters its loop
KStart(t) ==
    /\ kpc[t] = "idle"
    /\ \E e \in AArgs, n \in AArgs :
        /\ k_oldvalue' = [k_oldvalue EXCEPT ![t] = e]
        /\ k_newvalue' = [k_newvalue EXCEPT ![t] = n]
    /\ kpc' = [kpc EXCEPT ![t] = "loop"]
    /\ UNCHANGED <<state, a_nops, k_retried>>
    /\ CasLoopFrame

\* one compare_and_swap(oldvalue, newvalue) of the loop
KCompareAndSwap(t) ==
    /\ kpc[t] = "loop"
    /\ \E o \in Atomic_compare_and_swap(state, k_oldvalue[t], k_newvalue[t]) :
        /\ state' = o.state
        /\ k_oldvalue' = [k_oldvalue EXCEPT ![t] = o.oldvalue]
        /\ kpc' = [kpc EXCEPT ![t] = IF o.ret THEN "done" ELSE "loop"]
        /\ k_retried' = [k_retried EXCEPT ![t] = @ \/ ~o.ret]
    /\ UNCHANGED <<a_nops, k_newvalue>>
    /\ CasLoopFrame

\* another thread calls fetch_add_release(v) or fetch_add_acquire(v)
KFetchAdd(t) ==
    /\ a_nops[t] < MaxAtomicOps
    /\ \E v \in AArgs \ {0} : state' = Atomic_fetch_add(state, v)
    /\ a_nops' = [a_nops EXCEPT ![t] = @ + 1]
    /\ UNCHANGED kvars
    /\ CasLoopFrame

CasLoopNext ==
    \/ KStart(1)
    \/ KCompareAndSwap(1)
    \/ \E t \in AThreads \ {1} : KFetchAdd(t)

CasLoopInit ==
    /\ MutexIdle /\ RobustIdle /\ CondIdle /\ GuardIdle /\ RWaitIdle /\ HandleIdle
    /\ AtomicStart /\ UnlockIdle /\ LoopsIdle /\ RaceIdle /\ SemIdle /\ CasLoopStart /\ CloseIdle /\ ThreadIdle

SpecCasLoop == CasLoopInit /\ [][CasLoopNext]_vars

\* Scheduling: the thread inside its loop keeps calling compare_and_swap, and
\* a compare_and_swap that could succeed for as long as it is retried does
\* succeed (the weak form fails spuriously now and then, not for ever).
CasLoopFairness ==
    /\ WF_vars(KCompareAndSwap(1))
    /\ WF_vars(KCompareAndSwap(1) /\ kpc'[1] = "done")

FairSpecCasLoop == SpecCasLoop /\ CasLoopFairness

\* C28: a compare_and_swap(oldvalue, newvalue) that returns true found the
\* cell holding oldvalue and has stored newvalue; one that returns false has
\* left the cell as it was and has put the value of the cell into oldvalue;
\* the strong forms return true whenever the cell holds oldvalue; and a loop
\* that retries with the updated oldvalue comes to a call that returns true
\* (the other threads make finitely many calls).
C28_CasResultAndRetry ==
    /\ [][KCompareAndSwap(1) =>
            /\ kpc'[1] = "done" => (state = k_oldvalue[1] /\ state' = k_newvalue[1])
            /\ kpc'[1] = "loop" => (state' = state /\ k_oldvalue'[1] = state)
            /\ (a_variant # "cxx11" /\ state = k_oldvalue[1]) => kpc'[1] = "done"]_vars
    /\ (kpc[1] = "loop") ~> (kpc[1] = "done")

\* the loop, whose first compare_and_swap found another value than oldvalue,
\* has retried with the value found and has stored newvalue, after calls of
\* another thread
C28_Witness ==
    /\ kpc[1] = "done" /\ k_retried[1]
    /\ k_oldvalue[1] \notin AArgs
    /\ state = k_newvalue[1]
    /\ \E u \in AThreads \ {1} : a_nops[u] > 0

(* ------------- Atomic<T>::load_relaxed and store, legacy gcc ------------ *)
(* The legacy gcc implementation reads and writes state with plain          *)
(* accesses.  For a T as wide as ptrdiff_t or wider, load_relaxed() reads   *)
(* until two consecutive reads agree and store() retries a compare-and-swap *)
(* until it succeeds.  Each access of state is one step.  The threads call  *)
(* load_relaxed() and store() again and again.                              *)

\* variables that no action of this part touches
LoopsFrame ==
    UNCHANGED <<mvars, rvars, cvars, gvars, wvars, hvars, uvars, a_variant, a_last,
                a_nops, a_net, a_other, a_replaced, l_wide, pvars, svars, kvars, dvars,
                tvars>>

\* load_relaxed(), line 1068: while (retval != val)
load_relaxed_loops(rv, v) == rv # v

\* __sync_bool_compare_and_swap(&state, old_value, value), line 1125: the
\* value stored
sync_bool_compare_and_swap(s, e, n) == IF s = e THEN n ELSE s

\* a thread calls load_relaxed(): the first read of state (line 1065, or line
\* 1075 for a narrow T, which then returns)
LLoad(t) ==
    /\ lpc[t] = "idle"
    /\ retval' = [retval EXCEPT ![t] = state]
    /\ lpc' = [lpc EXCEPT ![t] = IF l_wide THEN "load_val" ELSE "idle"]
    /\ UNCHANGED <<state, val, old_value, l_value>>
    /\ LoopsFrame

\* load_relaxed(), line 1067: T val = state
LLoadVal(t) ==
    /\ lpc[t] = "load_val"
    /\ val' = [val EXCEPT ![t] = state]
    /\ lpc' = [lpc EXCEPT ![t] = "load_test"]
    /\ UNCHANGED <<state, retval, old_value, l_value>>
    /\ LoopsFrame

\* load_relaxed(), lines 1068-1072: the test of the loop, then either
\* val = retval; retval = state; or the return of retval
LLoadLoop(t) ==
    /\ lpc[t] = "load_test"
    /\ IF load_relaxed_loops(retval[t], val[t])
         THEN /\ val' = [val EXCEPT ![t] = retval[t]]
              /\ retval' = [retval EXCEPT ![t] = state]
              /\ UNCHANGED lpc
         ELSE /\ lpc' = [lpc EXCEPT ![t] = "idle"]
              /\ UNCHANGED <<val, retval>>
    /\ UNCHANGED <<state, old_value, l_value>>
    /\ LoopsFrame

\* a thread calls store(value): T old_value = state (line 1122), or for a
\* narrow T the plain store state = value (line 1130), which then returns
LStore(t) ==
    /\ lpc[t] = "idle"
    /\ \E v \in AArgs :
        /\ l_value' = [l_value EXCEPT ![t] = v]
        /\ IF l_wide
             THEN /\ old_value' = [old_value EXCEPT ![t] = state]
                  /\ lpc' = [lpc EXCEPT ![t] = "store_cas"]
                  /\ UNCHANGED state
             ELSE /\ state' = v
                  /\ UNCHANGED <<old_value, lpc>>
    /\ UNCHANGED <<retval, val>>
    /\ LoopsFrame

\* store(), line 1125: the compare-and-swap; store() returns if it swapped
LStoreCas(t) ==
    /\ lpc[t] = "store_cas"
    /\ state' = sync_bool_compare_and_swap(state, old_value[t], l_value[t])
    /\ lpc' = [lpc EXCEPT ![t] = IF state = old_value[t] THEN "idle" ELSE "store_reload"]
    /\ UNCHANGED <<retval, val, old_value, l_value>>
    /\ LoopsFrame

\* store(), line 1126: old_value = state
LStoreReload(t) ==
    /\ lpc[t] = "store_reload"
    /\ old_value' = [old_value EXCEPT ![t] = state]
    /\ lpc' = [lpc EXCEPT ![t] = "store_cas"]
    /\ UNCHANGED <<state, retval, val, l_value>>
    /\ LoopsFrame

LoopsStep(t) ==
    \/ LLoad(t)
    \/ LLoadVal(t)
    \/ LLoadLoop(t)
    \/ LStore(t)
    \/ LStoreCas(t)
    \/ LStoreReload(t)

LoopsNext == \E t \in AThreads : LoopsStep(t)

LoopsInit ==
    /\ MutexIdle /\ RobustIdle /\ CondIdle /\ GuardIdle /\ RWaitIdle /\ HandleIdle
    /\ AtomicStart /\ a_variant = "legacy" /\ UnlockIdle /\ LoopsStart /\ RaceIdle /\ SemIdle /\ CasLoopIdle /\ CloseIdle /\ ThreadIdle

SpecLoops == LoopsInit /\ [][LoopsNext]_vars

\* every thread keeps running
LoopsFairness == \A t \in AThreads : WF_vars(LoopsStep(t))

FairSpecLoops == SpecLoops /\ LoopsFairness

\* C23: every load_relaxed() and every store() call that a thread has
\* started returns, whatever the other threads do meanwhile.
C23_OperationsComplete ==
    \A t \in AThreads : [](lpc[t] # "idle" => <>(lpc[t] = "idle"))


(* ----------- the SharedPart under notify() without the mutex ------------ *)
(* SharedPart::signal_counter and SharedPart::waiters are plain integers.   *)
(* waiters++ in wait(), signal_counter++ and --waiters in notify() and      *)
(* notify_all() are each a load followed by a store.  wait() is called with *)
(* the mutex held; here the notifiers call notify() and notify_all()        *)
(* without it.                                                              *)

\* variables that none of the steps below touches
RaceFrame ==
    UNCHANGED <<mvars, rvars, gvars, wvars, hvars, avars, uvars, lvars, emulation,
                cond_waitset, cwaits, nPosted, nReturned, owedAll, watched, svars,
                kvars, dvars, tvars>>

\* m_shared_part->waiters++ and --m_shared_part->waiters: the value stored
\* after v was loaded
waiters_incremented(v) == (v + 1) % WModulus

waiters_decremented(v) == (v - 1) % WModulus

\* wait(), line 616: the load of waiters++
PRegLoad(t) ==
    /\ cpc[t] = "locked"
    /\ sp_load' = [sp_load EXCEPT ![t] = waiters]
    /\ cpc' = [cpc EXCEPT ![t] = "reg_store"]
    /\ UNCHANGED <<cv_mutex, signal_counter, waiters, sem, my_counter, nCalls,
                   notifiedSince, notifying_all, nRegistered, nGranted>>
    /\ RaceFrame

\* wait(), lines 616-618: the store of waiters++, the snapshot of the signal
\* counter and the unlock
PRegStore(t) ==
    /\ cpc[t] = "reg_store"
    /\ waiters' = waiters_incremented(sp_load[t])
    /\ my_counter' = [my_counter EXCEPT ![t] = signal_counter]
    /\ cv_mutex' = NoThread
    /\ cpc' = [cpc EXCEPT ![t] = "sem_wait"]
    /\ nRegistered' = nRegistered + 1
    /\ notifiedSince' = [notifiedSince EXCEPT ![t] = FALSE]
    /\ UNCHANGED <<signal_counter, sem, nCalls, sp_load, notifying_all, nGranted>>
    /\ RaceFrame

\* notify() or notify_all() called without the mutex, lines 715 and 741: the
\* load of signal_counter++
PNotifyLoad(n) ==
    /\ cpc[n] = "idle"
    /\ nCalls < MaxSignals
    /\ nCalls' = nCalls + 1
    /\ notifying_all' \in {[notifying_all EXCEPT ![n] = b] : b \in BOOLEAN}
    /\ sp_load' = [sp_load EXCEPT ![n] = signal_counter]
    /\ cpc' = [cpc EXCEPT ![n] = "sc_store"]
    /\ UNCHANGED <<cv_mutex, signal_counter, waiters, sem, my_counter, notifiedSince,
                   nRegistered, nGranted>>
    /\ RaceFrame

\* lines 715 and 741: the store of signal_counter++
PNotifyStore(n) ==
    /\ cpc[n] = "sc_store"
    /\ signal_counter' = sp_load[n] + 1
    /\ cpc' = [cpc EXCEPT ![n] = "test"]
    /\ UNCHANGED <<cv_mutex, waiters, sem, my_counter, nCalls, notifiedSince, pvars>>
    /\ RaceFrame

\* lines 716 and 742: if (waiters) / while (waiters)
PNotifyTest(n) ==
    /\ cpc[n] = "test"
    /\ cpc' = [cpc EXCEPT ![n] = IF waiters # 0 THEN "post" ELSE "idle"]
    /\ UNCHANGED <<cv_mutex, signal_counter, waiters, sem, my_counter, nCalls,
                   notifiedSince, pvars>>
    /\ RaceFrame

\* lines 717-718 and 743-744: sem_post(m_sem) and the load of --waiters
PNotifyPost(n) ==
    /\ cpc[n] = "post"
    /\ sem' = sem + 1
    /\ sp_load' = [sp_load EXCEPT ![n] = waiters]
    /\ cpc' = [cpc EXCEPT ![n] = "dec_store"]
    /\ UNCHANGED <<cv_mutex, signal_counter, waiters, my_counter, nCalls,
                   notifiedSince, notifying_all, nRegistered, nGranted>>
    /\ RaceFrame

\* lines 718 and 744: the store of --waiters; notify() returns, notify_all()
\* tests waiters again
PNotifyDec(n) ==
    /\ cpc[n] = "dec_store"
    /\ waiters' = waiters_decremented(sp_load[n])
    /\ nGranted' = nGranted + 1
    /\ cpc' = [cpc EXCEPT ![n] = IF notifying_all[n] THEN "test" ELSE "idle"]
    /\ UNCHANGED <<cv_mutex, signal_counter, sem, my_counter, nCalls, notifiedSince,
                   sp_load, notifying_all, nRegistered>>
    /\ RaceFrame

PWaiterStep(t) ==
    \/ WLock(t)
    \/ PRegLoad(t)
    \/ PRegStore(t)
    \/ WSemWait(t)
    \/ WRelock(t)
    \/ WPostBack(t)
    \/ WUnlock(t)

PNotifierStep(n) ==
    \/ PNotifyLoad(n)
    \/ PNotifyStore(n)
    \/ PNotifyTest(n)
    \/ PNotifyPost(n)
    \/ PNotifyDec(n)

RaceNext ==
    \/ \E t \in Waiters : PWaiterStep(t)
    \/ \E n \in Notifiers : PNotifierStep(n)

RaceInit ==
    /\ MutexIdle /\ RobustIdle /\ CondStart /\ emulation /\ GuardIdle /\ RWaitIdle
    /\ HandleIdle /\ AtomicIdle /\ UnlockIdle /\ LoopsIdle /\ RaceStart /\ SemIdle /\ CasLoopIdle /\ CloseIdle /\ ThreadIdle

SpecRace == RaceInit /\ [][RaceNext]_vars

\* no thread is between the load and the store of an update
Quiescent ==
    /\ \A t \in Waiters : cpc[t] # "reg_store"
    /\ \A n \in Notifiers : cpc[n] = "idle"

\* C25: with notify() and notify_all() called without the mutex, no update of
\* the signal counter or of the waiter count is lost: the signal counter never
\* decreases and counts the calls, the waiter count stays within the number of
\* waiters and is the number of registered waiters not yet granted a permit.
C25_SharedPartUpdatesAtomic ==
    /\ [][signal_counter' >= signal_counter]_vars
    /\ [](waiters \in 0..NWaiters)
    /\ [](Quiescent => signal_counter = nCalls)
    /\ [](Quiescent => waiters = nRegistered - nGranted)


(* ------------- two SharedParts behind the one semaphore ---------------- *)
(* set_shared_part() ignores device, inode and offset and get_semaphore()   *)
(* opens the semaphore named m_name: the emulated handles of every          *)
(* SharedPart post to and wait on the same semaphore.  Two SharedParts,     *)
(* each with the mutex of its own monitor; every call is made by the holder *)
(* of that mutex.  Each waiter waits once.                                  *)

\* variables that none of the steps below touches
SemFrame ==
    UNCHANGED <<mvars, rvars, cvars, gvars, wvars, hvars, avars, uvars, lvars, pvars, kvars, dvars,
                tvars>>

\* waiter t is inside wait(): registered, and not yet returned
SRegistered(t) == spc[t] \in {"sem_wait", "relock", "postback"}

\* LockGuard l(mutex) of a thread about to wait on its SharedPart
SLock(t) ==
    /\ spc[t] = "idle"
    /\ s_mutex[PartOf(t)] = NoThread
    /\ s_mutex' = [s_mutex EXCEPT ![PartOf(t)] = t]
    /\ spc' = [spc EXCEPT ![t] = "locked"]
    /\ UNCHANGED <<s_signal_counter, s_waiters, s_sem, s_my_counter, s_part, s_nCalls,
                   s_notified, s_meant>>
    /\ SemFrame

\* wait(l), lines 616-618: waiters++, my_counter = signal_counter, unlock
SWait(t) ==
    /\ spc[t] = "locked"
    /\ s_waiters' = [s_waiters EXCEPT ![PartOf(t)] = @ + 1]
    /\ s_my_counter' = [s_my_counter EXCEPT ![t] = s_signal_counter[PartOf(t)]]
    /\ s_mutex' = [s_mutex EXCEPT ![PartOf(t)] = NoThread]
    /\ s_notified' = [s_notified EXCEPT ![t] = FALSE]
    /\ spc' = [spc EXCEPT ![t] = "sem_wait"]
    /\ UNCHANGED <<s_signal_counter, s_sem, s_part, s_nCalls, s_meant>>
    /\ SemFrame

\* wait(l), line 621: sem_wait(m_sem) takes a permit, whoever posted it
SSemWait(t) ==
    /\ spc[t] = "sem_wait"
    /\ s_sem > 0
    /\ s_sem' = s_sem - 1
    /\ spc' = [spc EXCEPT ![t] = "relock"]
    /\ UNCHANGED <<s_mutex, s_signal_counter, s_waiters, s_my_counter, s_part, s_nCalls,
                   s_notified, s_meant>>
    /\ SemFrame

\* wait(l), lines 622-624: lock() and the test of the signal counter of the
\* waiter's own SharedPart; on a changed counter wait() returns
SRelock(t) ==
    /\ spc[t] = "relock"
    /\ s_mutex[PartOf(t)] = NoThread
    /\ s_mutex' = [s_mutex EXCEPT ![PartOf(t)] = t]
    /\ LET to == CondVar_wait_check(s_signal_counter[PartOf(t)], s_my_counter[t]) IN
        /\ spc' = [spc EXCEPT ![t] = to]
        /\ s_meant' = IF to = "woken" /\ t = 1 THEN FALSE ELSE s_meant
    /\ UNCHANGED <<s_signal_counter, s_waiters, s_sem, s_my_counter, s_part, s_nCalls,
                   s_notified>>
    /\ SemFrame

\* wait(l), lines 626-628: sem_post, sched_yield, unlock
SPostBack(t) ==
    /\ spc[t] = "postback"
    /\ s_sem' = s_sem + 1
    /\ s_mutex' = [s_mutex EXCEPT ![PartOf(t)] = NoThread]
    /\ spc' = [spc EXCEPT ![t] = "sem_wait"]
    /\ UNCHANGED <<s_signal_counter, s_waiters, s_my_counter, s_part, s_nCalls,
                   s_notified, s_meant>>
    /\ SemFrame

\* ~LockGuard of a thread that has waited
SUnlock(t) ==
    /\ spc[t] = "woken"
    /\ s_mutex' = [s_mutex EXCEPT ![PartOf(t)] = NoThread]
    /\ spc' = [spc EXCEPT ![t] = "done"]
    /\ UNCHANGED <<s_signal_counter, s_waiters, s_sem, s_my_counter, s_part, s_nCalls,
                   s_notified, s_meant>>
    /\ SemFrame

\* LockGuard l(mutex) of the notifier, on the monitor of SharedPart p
SNLock(n, p) ==
    /\ spc[n] = "idle"
    /\ s_nCalls < MaxSignals
    /\ s_mutex[p] = NoThread
    /\ s_mutex' = [s_mutex EXCEPT ![p] = n]
    /\ s_part' = p
    /\ spc' = [spc EXCEPT ![n] = "n_locked"]
    /\ UNCHANGED <<s_signal_counter, s_waiters, s_sem, s_my_counter, s_nCalls,
                   s_notified, s_meant>>
    /\ SemFrame

\* bookkeeping of a notify() or notify_all() call on SharedPart s_part that
\* posts k permits
SCallNoted(n, k) ==
    /\ s_nCalls' = s_nCalls + 1
    /\ s_notified' = [u \in Waiters |->
                        s_notified[u] \/ (PartOf(u) = s_part /\ SRegistered(u))]
    /\ s_meant' = (s_meant \/ (s_part = 1 /\ k > 0 /\ SRegistered(1)))
    /\ spc' = [spc EXCEPT ![n] = "n_done"]

\* notify() on a handle of SharedPart s_part, lines 715-719
SNotify(n) ==
    /\ spc[n] = "n_locked"
    /\ s_signal_counter' = [s_signal_counter EXCEPT ![s_part] = @ + 1]
    /\ IF s_waiters[s_part] > 0
         THEN /\ s_sem' = s_sem + 1
              /\ s_waiters' = [s_waiters EXCEPT ![s_part] = @ - 1]
              /\ SCallNoted(n, 1)
         ELSE /\ UNCHANGED <<s_sem, s_waiters>>
              /\ SCallNoted(n, 0)
    /\ UNCHANGED <<s_mutex, s_my_counter, s_part>>
    /\ SemFrame

\* notify_all() on a handle of SharedPart s_part, lines 741-745
SNotifyAll(n) ==
    /\ spc[n] = "n_locked"
    /\ s_signal_counter' = [s_signal_counter EXCEPT ![s_part] = @ + 1]
    /\ s_sem' = s_sem + s_waiters[s_part]
    /\ s_waiters' = [s_waiters EXCEPT ![s_part] = 0]
    /\ SCallNoted(n, s_waiters[s_part])
    /\ UNCHANGED <<s_mutex, s_my_counter, s_part>>
    /\ SemFrame

\* ~LockGuard of the notifier
SNUnlock(n) ==
    /\ spc[n] = "n_done"
    /\ s_mutex' = [s_mutex EXCEPT ![s_part] = NoThread]
    /\ spc' = [spc EXCEPT ![n] = "idle"]
    /\ UNCHANGED <<s_signal_counter, s_waiters, s_sem, s_my_counter, s_part, s_nCalls,
                   s_notified, s_meant>>
    /\ SemFrame

SWaiterStep(t) ==
    \/ SLock(t)
    \/ SWait(t)
    \/ SSemWait(t)
    \/ SRelock(t)
    \/ SPostBack(t)
    \/ SUnlock(t)

SNotifierStep(n) ==
    \/ \E p \in Parts : SNLock(n, p)
    \/ SNotify(n)
    \/ SNotifyAll(n)
    \/ SNUnlock(n)

SemNext ==
    \/ \E t \in Waiters : SWaiterStep(t)
    \/ SNotifierStep(FirstNotifier)

SemInit ==
    /\ MutexIdle /\ RobustIdle /\ CondIdle /\ GuardIdle /\ RWaitIdle /\ HandleIdle
    /\ AtomicIdle /\ UnlockIdle /\ LoopsIdle /\ RaceIdle /\ SemStart /\ CasLoopIdle /\ CloseIdle /\ ThreadIdle

SpecSem == SemInit /\ [][SemNext]_vars

\* Scheduling, as for the single condition variable: a thread that can run
\* does run, the semaphore and the mutexes do not starve a blocked thread;
\* starting a wait or a notification is never forced.
SemFairness ==
    /\ \A t \in Waiters :
        /\ WF_vars(SWait(t))
        /\ SF_vars(SSemWait(t))
        /\ SF_vars(SRelock(t))
        /\ WF_vars(SPostBack(t))
        /\ WF_vars(SUnlock(t))
    /\ WF_vars(SNotify(FirstNotifier) \/ SNotifyAll(FirstNotifier))
    /\ WF_vars(SNUnlock(FirstNotifier))

FairSpecSem == SpecSem /\ SemFairness

\* C27: the handles of both SharedParts use the one semaphore, yet a wait()
\* returns only after a notify()/notify_all() on its own SharedPart, and a
\* waiter for which a permit was posted does return, even if a waiter of the
\* other SharedPart takes the permit first.
C27_IsolationBetweenSharedParts ==
    /\ [](\A t \in Waiters : spc[t] \in {"woken", "done"} => s_notified[t])
    /\ (s_meant ~> ~s_meant)


(* --------------- close() and ~CondVar on the same handle --------------- *)
(* close() is called on a handle any number of times, open or not, and then *)
(* the destructor runs, which calls close() once more.  No thread waits on  *)
(* the handle, so pthread_cond_destroy returns 0.                           *)

\* variables that no step below touches
CloseFrame ==
    UNCHANGED <<mvars, rvars, gvars, wvars, avars, uvars, lvars, pvars, svars, kvars,
                emulation, cv_mutex, cpc, my_counter, cwaits, nCalls, nPosted,
                nReturned, owedAll, watched, notifiedSince, h_of, h_afterClose, tvars>>

\* close() on handle h, lines 562-573, with the calls it makes counted:
\* sem_close if (m_sem), else pthread_cond_destroy and delete if (m_cond)
CondVar_close_counted(h) ==
    /\ CondVar_close(h)
    /\ nSemClosed' = [nSemClosed EXCEPT ![h] = IF m_sem[h] THEN @ + 1 ELSE @]
    /\ nDestroyed' = [nDestroyed EXCEPT ![h] =
                        IF ~m_sem[h] /\ m_cond[h] THEN @ + 1 ELSE @]

\* the program calls close() on a handle
DClose(h) ==
    /\ d_alive[h]
    /\ d_ncloses[h] < MaxCloses
    /\ CondVar_close_counted(h)
    /\ d_ncloses' = [d_ncloses EXCEPT ![h] = @ + 1]
    /\ UNCHANGED d_alive
    /\ CloseFrame

\* CondVar::~CondVar, lines 579-582: close()
DDestruct(h) ==
    /\ d_alive[h]
    /\ CondVar_close_counted(h)
    /\ d_alive' = [d_alive EXCEPT ![h] = FALSE]
    /\ UNCHANGED d_ncloses
    /\ CloseFrame

CloseNext ==
    \/ \E h \in Handles : DClose(h)
    \/ \E h \in Handles : DDestruct(h)

CloseInit ==
    /\ MutexIdle /\ RobustIdle /\ CondStart /\ GuardIdle /\ RWaitIdle /\ HandleStart
    /\ AtomicIdle /\ UnlockIdle /\ LoopsIdle /\ RaceIdle /\ SemIdle /\ CasLoopIdle
    /\ CloseStart /\ ThreadIdle

SpecClose == CloseInit /\ [][CloseNext]_vars

\* C31: whatever close() calls are made on a handle before its destructor
\* runs, its own condition variable is destroyed and deleted at most once and
\* its semaphore handle is closed at most once; a handle that has been closed
\* owns neither any more.
C31_CloseIdempotent ==
    \A h \in Handles :
        /\ nDestroyed[h] <= 1
        /\ nSemClosed[h] <= 1
        /\ nDestroyed[h] + nSemClosed[h] <= 1
        /\ (d_ncloses[h] > 0 \/ ~d_alive[h]) => (~m_sem[h] /\ (nDestroyed[h] = 1 \/ ~m_cond[h]))
        /\ ~d_alive[h] => (~m_sem[h] /\ ~m_cond[h])

\* a process-local handle and an emulated one have each been closed
\* MaxCloses times and then destroyed
C31_Witness ==
    \E g, h \in Handles :
        /\ ~d_alive[g] /\ d_ncloses[g] = MaxCloses /\ nDestroyed[g] = 1
        /\ ~d_alive[h] /\ d_ncloses[h] = MaxCloses /\ nSemClosed[h] = 1

(* --------------------------- Thread objects ---------------------------- *)

ThreadFrame ==
    UNCHANGED <<mvars, rvars, cvars, gvars, wvars, hvars, avars, uvars, lvars,
                pvars, svars, kvars, dvars>>

\* Thread::start(entry_func_type, void*): pthread_create() returns zero, or
\* an error number that create_failed() turns into an exception; before it
\* `new F(func)` may throw as well
pthread_create_results == {"created", "bad_alloc", "create_failed"}

\* a variant of the test below that lets start() go on with a joinable object
Thread_start_replaces(joinable) == FALSE

\* Thread::start(F) and Thread::~Thread(): `if (m_joinable) std::terminate();`
Thread_start_terminates(joinable) == joinable

\* Thread::Thread(): m_joinable(false)
TConstruct(o) ==
    /\ t_terminated = "no"
    /\ t_object[o] = "none"
    /\ t_object' = [t_object EXCEPT ![o] = "alive"]
    /\ m_joinable' = [m_joinable EXCEPT ![o] = FALSE]
    /\ UNCHANGED <<t_owned, t_run, t_nstarts, t_threw, t_terminated>>

\* Thread::Thread(F func): m_joinable(true), then the thread is created; when
\* that throws, the constructor throws and no object comes into existence
TConstructFunc(o) ==
    /\ t_terminated = "no"
    /\ t_object[o] = "none"
    /\ \E r \in pthread_create_results :
          IF r = "created"
            THEN /\ t_object' = [t_object EXCEPT ![o] = "alive"]
                 /\ m_joinable' = [m_joinable EXCEPT ![o] = TRUE]
                 /\ t_owned' = [t_owned EXCEPT ![o] = @ + 1]
                 /\ t_run' = [t_run EXCEPT ![o] = "running"]
                 /\ t_threw' = [t_threw EXCEPT ![o] = FALSE]
            ELSE /\ t_threw' = [t_threw EXCEPT ![o] = TRUE]
                 /\ UNCHANGED <<t_object, m_joinable, t_owned, t_run>>
    /\ UNCHANGED <<t_nstarts, t_terminated>>

\* Thread::start(F func): terminate on a joinable object; otherwise create
\* the thread and only then set m_joinable
TStart(o) ==
    /\ t_terminated = "no"
    /\ t_object[o] = "alive"
    /\ t_nstarts[o] < MaxStarts
    /\ t_nstarts' = [t_nstarts EXCEPT ![o] = @ + 1]
    /\ IF Thread_start_terminates(m_joinable[o])
         THEN /\ t_terminated' = "start"
              /\ UNCHANGED <<t_object, m_joinable, t_owned, t_run, t_threw>>
         ELSE /\ \E r \in pthread_create_results :
                    IF r = "created"
                      THEN /\ t_owned' = [t_owned EXCEPT ![o] = @ + 1]
                           /\ t_run' = [t_run EXCEPT ![o] = "running"]
                           /\ m_joinable' = [m_joinable EXCEPT ![o] = TRUE]
                           /\ t_threw' = [t_threw EXCEPT ![o] = FALSE]
                      ELSE /\ t_threw' = [t_threw EXCEPT ![o] = TRUE]
                           /\ UNCHANGED <<m_joinable, t_owned, t_run>>
              /\ UNCHANGED <<t_object, t_terminated>>

\* Thread::entry_point<F>: the function has run and the thread ends
TFinish(o) ==
    /\ t_terminated = "no"
    /\ t_run[o] = "running"
    /\ t_run' = [t_run EXCEPT ![o] = "finished"]
    /\ UNCHANGED <<t_object, m_joinable, t_owned, t_nstarts, t_threw,
                   t_terminated>>

\* Thread::join(): waits for the thread of a joinable object to end; the
\* object is not joinable afterwards
TJoin(o) ==
    /\ t_terminated = "no"
    /\ t_object[o] = "alive"
    /\ m_joinable[o]
    /\ t_run[o] = "finished"
    /\ m_joinable' = [m_joinable EXCEPT ![o] = FALSE]
    /\ t_owned' = [t_owned EXCEPT ![o] = @ - 1]
    /\ t_run' = [t_run EXCEPT ![o] = "none"]
    /\ UNCHANGED <<t_object, t_nstarts, t_threw, t_terminated>>

\* Thread::~Thread(): `if (m_joinable) std::terminate();`
TDestruct(o) ==
    /\ t_terminated = "no"
    /\ t_object[o] = "alive"
    /\ IF Thread_start_terminates(m_joinable[o])
         THEN /\ t_terminated' = "destructor"
              /\ UNCHANGED t_object
         ELSE /\ t_object' = [t_object EXCEPT ![o] = "destroyed"]
              /\ UNCHANGED t_terminated
    /\ UNCHANGED <<m_joinable, t_owned, t_run, t_nstarts, t_threw>>

ThreadNext ==
    \/ \E o \in ThreadObjs : TConstruct(o) /\ ThreadFrame
    \/ \E o \in ThreadObjs : TConstructFunc(o) /\ ThreadFrame
    \/ \E o \in ThreadObjs : TStart(o) /\ ThreadFrame
    \/ \E o \in ThreadObjs : TFinish(o) /\ ThreadFrame
    \/ \E o \in ThreadObjs : TJoin(o) /\ ThreadFrame
    \/ \E o \in ThreadObjs : TDestruct(o) /\ ThreadFrame

ThreadInit ==
    /\ MutexIdle /\ RobustIdle /\ CondIdle /\ GuardIdle /\ RWaitIdle /\ HandleIdle
    /\ AtomicIdle /\ UnlockIdle /\ LoopsIdle /\ RaceIdle /\ SemIdle /\ CasLoopIdle
    /\ CloseIdle /\ ThreadStart

SpecThread == ThreadInit /\ [][ThreadNext]_vars

\* C32: a Thread object owns at most one unjoined thread of execution: a
\* default-constructed Thread is not joinable; start(func) on a Thread that
\* is not joinable makes it joinable exactly when the thread was created;
\* start(func) on a joinable Thread and the destruction of a joinable Thread
\* terminate the process and leave the running thread with its object.
C32_ThreadOwnsAtMostOne ==
    /\ [](\A o \in ThreadObjs :
            /\ t_owned[o] <= 1
            /\ t_object[o] = "alive" => (m_joinable[o] <=> t_owned[o] = 1)
            /\ t_object[o] # "alive" => t_owned[o] = 0)
    /\ [][\A o \in ThreadObjs :
            /\ TConstruct(o) => ~m_joinable'[o]
            /\ (TStart(o) /\ ~m_joinable[o]) =>
                  /\ m_joinable'[o] <=> t_owned'[o] = t_owned[o] + 1
                  /\ t_terminated' = "no"
            /\ ((TStart(o) \/ TDestruct(o)) /\ m_joinable[o]) =>
                  /\ t_terminated' # "no"
                  /\ t_owned' = t_owned /\ t_run' = t_run
                  /\ t_object' = t_object /\ m_joinable' = m_joinable]_vars

\* start() was called on an object that was constructed with a function and
\* not joined, after another object had been started, joined and destroyed
C32_Witness ==
    /\ t_terminated = "start"
    /\ \E o, p \in ThreadObjs :
          /\ o # p
          /\ t_object[o] = "alive" /\ m_joinable[o] /\ t_owned[o] = 1
          /\ t_nstarts[o] = 1
          /\ t_object[p] = "destroyed" /\ t_nstarts[p] > 0 /\ ~t_threw[p]

=============================================================================
